---- MODULE Spec2Model ----
(***************************************************************************)
(* A model of ccc's session state engine (src/main.go): the pane           *)
(* classifiers, the session lifecycle manager, the control-socket          *)
(* handlers, the background capture task, the message-id counter and the   *)
(* persisted history.                                                      *)
(*                                                                         *)
(* A terminal line is a sequence of tokens.  A token stands for one of the *)
(* substrings the code searches for, or for one character:                 *)
(*   "SP"        a blank                  "TXT"      an ordinary letter    *)
(*   "PROMPT"    the glyph U+276F         "GT"       the character >       *)
(*   "RULE"      the box-drawing dash     "BULLET"   the glyph U+25CF      *)
(*   "SPIN1"/"SPIN2"  the two spinner glyphs the classifier knows          *)
(*   "TREE"      the tool-output glyph U+23BF                              *)
(*   "INTERRUPT" "ctrl+c to interrupt"    "BYPASS"   "bypass permissions"  *)
(*   "SHIFTTAB"  "shift+tab to cycle"                                      *)
(*   "RUNNING"   "Running..."             "THINKING" "Thinking..."         *)
(* and, for the response extractor,                                        *)
(*   "TXT2"      a second ordinary letter "LPAREN"   the character (       *)
(*   "NL"        the line break of a joined text                           *)
(*   "SPIN3"/"SPIN4"  the glyphs U+2736 and U+2722   "DOT"  U+00B7         *)
(*   "STAR"      the character *          "STATUS"   the glyph U+23F5      *)
(*   "ELLIPSIS"  the character U+2026     "SEARCHED" "Searched ", "Wrote ",*)
(*   "EXPAND"    "(ctrl+o to expand)"                or "Read "            *)
(*   "TIMEOUT"   "(timeout "              "NOCONTENT" "(No content)"       *)
(*   "COGITATED" "Cogitated" or one of its five synonyms                   *)
(*   "FOR"       " for "                  "SECS"     a duration, as 2m     *)
(* strings.Contains on a needle is membership of its token, HasPrefix is a *)
(* test of the first token, TrimSpace strips "SP" tokens at both ends.     *)
(***************************************************************************)
EXTENDS Integers, Sequences, FiniteSets, TLC

\* ------------------------------------------------------------------ bounds

\* Longest pane (in lines) the pane specification builds.
MaxPaneLines == 3

\* ------------------------------------------------------------- string ops

Contains(line, tok) == \E i \in 1..Len(line) : line[i] = tok

SetMin(S) == CHOOSE m \in S : \A n \in S : m <= n
SetMax(S) == CHOOSE m \in S : \A n \in S : n <= m

\* The positions of a line that hold something else than a blank.
NonBlank(line) == { i \in 1..Len(line) : line[i] # "SP" }

TrimLeft(line) ==
    IF NonBlank(line) = {} THEN <<>>
    ELSE SubSeq(line, SetMin(NonBlank(line)), Len(line))

TrimRight(line) ==
    IF NonBlank(line) = {} THEN <<>>
    ELSE SubSeq(line, 1, SetMax(NonBlank(line)))

TrimSpace(line) == TrimRight(TrimLeft(line))

HasPrefix(line, tok) == line # <<>> /\ Head(line) = tok

\* strings.Split(content, "\n"): the empty string splits into one empty line.
SplitLines(content) == IF content = <<>> THEN << <<>> >> ELSE content

\* runSSH returns strings.TrimSpace(stdout): blank lines at both ends of the
\* output go, and so do the blanks that open its first and close its last line.
\* The lines of a capture that hold something else than blanks.
NonBlankLines(content) ==
    { i \in 1..Len(content) : NonBlank(content[i]) # {} }

runSSHTrim(content) ==
    IF NonBlankLines(content) = {} THEN <<>>
    ELSE LET c == SubSeq(content, SetMin(NonBlankLines(content)),
                         SetMax(NonBlankLines(content)))
         IN IF Len(c) = 1 THEN << TrimSpace(c[1]) >>
            ELSE << TrimLeft(c[1]) >> \o SubSeq(c, 2, Len(c) - 1)
                 \o << TrimRight(c[Len(c)]) >>

\* What a capture-pane call hands to the caller: the pane as it is for a local
\* session (cmd.Output), trimmed by runSSH for a remote one.
capturePane(screen, remote) == IF remote THEN runSSHTrim(screen) ELSE screen

\* ------------------------------------------------------- state inference

\* The test of checkClaudeState's backward scan: line == prompt glyph or
\* line == "> ", on the line already trimmed.
IsPromptLine(line) ==
    LET t == TrimSpace(line) IN t = <<"PROMPT">> \/ t = <<"GT", "SP">>

PromptLines(lines) == { i \in 1..Len(lines) : IsPromptLine(lines[i]) }

\* A scan that stops at the first prompt line from the top.
promptLineIdxFirst(lines) ==
    IF PromptLines(lines) = {} THEN 0 ELSE SetMin(PromptLines(lines))

\* promptLineIdx, lines 1349-1356: the index of the last prompt line, 0 when
\* there is none (the code's -1; lines are numbered from 1 here).
promptLineIdx(lines) ==
    IF PromptLines(lines) = {} THEN 0 ELSE SetMax(PromptLines(lines))

\* The lines the forward scan skips: separators and the status bar.
SkippedLine(line) == HasPrefix(TrimSpace(line), "RULE") \/ Contains(line, "BYPASS")

ActivityLine(line) ==
    \/ Contains(line, "INTERRUPT")
    \/ Contains(line, "SPIN1") \/ Contains(line, "SPIN2")
    \/ Contains(line, "RUNNING") \/ Contains(line, "THINKING")

\* The forward scan over the lines from line i on, lines 1365-1381: busy at
\* the first line that is not skipped and shows activity, idle otherwise.
ScanAfterPrompt(lines, i) ==
    IF \E j \in i..Len(lines) : ~SkippedLine(lines[j]) /\ ActivityLine(lines[j])
    THEN "busy" ELSE "idle"

\* checkClaudeState on the outcome of its capture: err is TRUE when the capture
\* command failed, content is what it printed otherwise.  The scan of the three
\* lines before the prompt (lines 1383-1396) changes nothing and returns nothing.
checkClaudeStateFirstPrompt(content, err) ==
    IF err THEN "unknown"
    ELSE LET lines == SplitLines(content)
             idx == promptLineIdxFirst(lines)
         IN IF idx = 0 THEN "unknown" ELSE ScanAfterPrompt(lines, idx + 1)

checkClaudeState(content, err) ==
    IF err THEN "unknown"
    ELSE LET lines == SplitLines(content)
             idx == promptLineIdx(lines)
         IN IF idx = 0 THEN "unknown" ELSE ScanAfterPrompt(lines, idx + 1)

\* claudeIndicators of isClaudeRunning.
claudeIndicators ==
    {"PROMPT", "BYPASS", "SHIFTTAB", "INTERRUPT", "BULLET", "SPIN1", "SPIN2", "TREE"}

HasIndicator(content, indicators) ==
    \E i \in 1..Len(content) : \E tok \in indicators : Contains(content[i], tok)

isClaudeRunningPromptOnly(content, err) ==
    IF err THEN FALSE ELSE HasIndicator(content, {"PROMPT"})

isClaudeRunning(content, err) ==
    IF err THEN FALSE ELSE HasIndicator(content, claudeIndicators)

\* ------------------------------------------------------ response extractor

\* isClaudeUIArtifact.  The rune loop of lines 1127-1134 runs over what
\* follows the bullet: a run of letters, empty or not, that ends at "(" (or
\* ":") is a tool call; any other character ends the loop.
isClaudeUIArtifact(line) ==
    LET trimmed == TrimSpace(line)
        rest == TrimSpace(Tail(trimmed))
        Letters == {"TXT", "TXT2", "COGITATED"}
        OpensParen == {"LPAREN", "EXPAND", "TIMEOUT", "NOCONTENT"}
        IsToolCall ==
            \E k \in 1..Len(rest) :
                rest[k] \in OpensParen /\ \A j \in 1..(k - 1) : rest[j] \in Letters
        IsThinkingStats ==
            /\ Contains(trimmed, "FOR")
            /\ trimmed[Len(trimmed)] \in {"SECS", "BYPASS"}
            /\ HasPrefix(trimmed, "COGITATED")
    IN \/ trimmed = <<>>
       \/ \A i \in 1..Len(trimmed) : trimmed[i] = "RULE"
       \/ HasPrefix(trimmed, "BULLET")
            /\ (IsToolCall \/ HasPrefix(rest, "SEARCHED"))
       \/ HasPrefix(trimmed, "TREE")
       \/ /\ Len(line) >= 5 /\ \A i \in 1..5 : line[i] = "SP"
          /\ ~HasPrefix(trimmed, "BULLET")
          /\ (Contains(trimmed, "EXPAND") \/ HasPrefix(trimmed, "ELLIPSIS"))
       \/ \E tok \in {"SPIN3", "SPIN4", "SPIN1", "SPIN2", "DOT"} :
              HasPrefix(trimmed, tok)
       \/ (Len(trimmed) >= 2 /\ trimmed[1] = "STAR" /\ trimmed[2] = "SP")
       \/ HasPrefix(trimmed, "STATUS")
       \/ IsThinkingStats
       \/ Contains(line, "INTERRUPT") \/ Contains(line, "BYPASS")
       \/ Contains(trimmed, "EXPAND")
       \/ HasPrefix(trimmed, "TIMEOUT")
       \/ trimmed = <<"NOCONTENT">>

\* Lines 1083-1087: a line that opens, after blanks, with the bullet and a
\* blank loses both and the blanks before them; any other line is kept as is.
StripBullet(line) ==
    LET trimmedLine == TrimSpace(line) IN
    IF Len(trimmedLine) >= 2 /\ trimmedLine[1] = "BULLET" /\ trimmedLine[2] = "SP"
    THEN SubSeq(trimmedLine, 3, Len(trimmedLine))
    ELSE line

\* A scan that does not stop at the earlier prompt line.
KeptIdxToTop(lines) ==
    LET GlyphIdx == { i \in 1..Len(lines) : Contains(lines[i], "PROMPT") } IN
    IF GlyphIdx = {} THEN {}
    ELSE { i \in 1..(SetMax(GlyphIdx) - 1) :
             /\ ~Contains(lines[i], "PROMPT")
             /\ TrimSpace(lines[i]) # <<>> /\ ~isClaudeUIArtifact(lines[i]) }

\* The backward scan of lines 1063-1091: the lines between the last line that
\* holds the prompt glyph anywhere and the one before it (the top of the
\* capture when there is none), blank and artifact lines left out.
KeptIdx(lines) ==
    LET GlyphIdx == { i \in 1..Len(lines) : Contains(lines[i], "PROMPT") } IN
    IF GlyphIdx = {} THEN {}
    ELSE LET last == SetMax(GlyphIdx)
             before == { i \in GlyphIdx : i < last }
             first == IF before = {} THEN 0 ELSE SetMax(before)
         IN { i \in (first + 1)..(last - 1) :
                TrimSpace(lines[i]) # <<>> /\ ~isClaudeUIArtifact(lines[i]) }

\* The kept lines in the order of the capture, each without its bullet.
responseLines(lines) ==
    LET Nth(S, i) == CHOOSE m \in S : Cardinality({ n \in S : n <= m }) = i IN
    [ i \in 1..Cardinality(KeptIdx(lines)) |->
        StripBullet(lines[Nth(KeptIdx(lines), i)]) ]

\* strings.Join(lines, "\n"): a text as one sequence of tokens.
RECURSIVE JoinLines(_)
JoinLines(text) ==
    IF text = <<>> THEN <<>>
    ELSE IF Len(text) = 1 THEN text[1]
    ELSE text[1] \o <<"NL">> \o JoinLines(Tail(text))

\* strings.TrimSpace of a text of several lines, the text kept as its lines.
TrimText(text) == runSSHTrim(text)

HasSuffix(s, suffix) ==
    /\ Len(suffix) <= Len(s)
    /\ SubSeq(s, Len(s) - Len(suffix) + 1, Len(s)) = suffix

\* Line 1093: the candidate response of one capture.
ResponseText(output) == TrimText(responseLines(SplitLines(output)))

\* Lines 1096-1102: the candidate is the sent text, its tail, or ends with it.
IsEcho(result, sentText) ==
    /\ sentText # <<>> /\ result # <<>>
    /\ LET sentNorm == JoinLines(TrimText(sentText))
           r == JoinLines(result)
       IN r = sentNorm \/ HasSuffix(sentNorm, r) \/ HasSuffix(r, sentNorm)

\* captureClaudeResponse on the outcome of its capture; the empty text is the
\* empty string.
captureClaudeResponse(output, err, sentText) ==
    IF err THEN <<>>
    ELSE IF IsEcho(ResponseText(output), sentText) THEN <<>>
    ELSE ResponseText(output)

\* getLastClaudeResponse over its three captures: the first result that is
\* not empty, the empty text when there is none.
getLastClaudeResponse(captures, sentText) ==
    LET res == [ i \in 1..Len(captures) |->
                   captureClaudeResponse(captures[i].output, captures[i].err,
                                         sentText) ]
        hits == { i \in 1..Len(captures) : res[i] # <<>> }
    IN IF hits = {} THEN <<>> ELSE res[SetMin(hits)]

\* ---------------------------------------------------- session lifecycle

\* restartClaudeInSession: type the relaunch command, wait, look again.
\* sendOk is whether the send-keys command succeeded; content2/err2 is the
\* capture taken after the wait.
restartClaudeInSession(sendOk, content2, err2) ==
    IF ~sendOk THEN FALSE ELSE isClaudeRunning(content2, err2)

\* ensureSessionRunning on the answers it gets from the terminal transport:
\*   remote, hostOK   info.Host != "", and getHostAddress found an address
\*   exists           has-session succeeded
\*   createErr        "none", "duplicate" or "other": how new-session ended
\*   content1, err1   the capture isClaudeRunning takes
\*   sendOk, content2, err2   as in restartClaudeInSession
\* The result: err (the returned string), created, slept (the settle delay was
\* taken), restarts (calls of restartClaudeInSession) and typed (the launch
\* commands that reached the terminal, in order: "launch" by the creation,
\* "relaunch" by a restart).
EnsureResult(err, created, restarts, typed) ==
    [err |-> err, created |-> created, slept |-> created, restarts |-> restarts,
     typed |-> typed]

\* A check that tries the restart a second time when the first one left the
\* pane without an indicator.
ensureCheckRunningRetry(e, created) ==
    LET typed0 == IF created THEN <<"launch">> ELSE <<>>
        typed1 == IF e.sendOk THEN typed0 \o <<"relaunch">> ELSE typed0
    IN
    IF isClaudeRunning(e.content1, e.err1)
    THEN EnsureResult("", created, 0, typed0)
    ELSE IF restartClaudeInSession(e.sendOk, e.content2, e.err2)
    THEN EnsureResult("", created, 1, typed1)
    ELSE EnsureResult("failed to restart Claude", created, 2,
                      IF e.sendOk THEN typed1 \o <<"relaunch">> ELSE typed1)

\* Lines 528-534 and 549-555: the check that follows on both branches.
ensureCheckRunning(e, created) ==
    LET typed0 == IF created THEN <<"launch">> ELSE <<>> IN
    IF isClaudeRunning(e.content1, e.err1)
    THEN EnsureResult("", created, 0, typed0)
    ELSE EnsureResult(
           IF restartClaudeInSession(e.sendOk, e.content2, e.err2)
           THEN "" ELSE "failed to restart Claude",
           created, 1,
           IF e.sendOk THEN typed0 \o <<"relaunch">> ELSE typed0)

\* Lines 500-559.  The creation's error is taken for a duplicate when its text
\* contains "duplicate session": the error of sshTmuxNewSession carries the
\* remote tmux's stderr (runSSH, lines 1709-1714), the error of
\* createTmuxSession is the one cmd.Run returned (line 2255), whose text is
\* the exit status only.
ensureSessionRunning(e) ==
    LET duplicate == e.remote /\ e.createErr = "duplicate" IN
    IF e.remote /\ ~e.hostOK THEN EnsureResult("host not configured", FALSE, 0, <<>>)
    ELSE IF e.exists THEN ensureCheckRunning(e, FALSE)
    ELSE IF e.createErr = "none" THEN ensureCheckRunning(e, TRUE)
    ELSE IF duplicate THEN ensureCheckRunning(e, FALSE)
    ELSE EnsureResult("failed to start session", FALSE, 0, <<>>)

\* ------------------------------------------------------------- history

\* A HistoryMessage as the model keeps it: id, from, text, and big, which is
\* TRUE when the encoded record is longer than bufio.MaxScanTokenSize (64 KiB),
\* the longest line a bufio.Scanner with its default buffer reads.  Text is a
\* string in every record: the agent's answer to prompt n, which the model
\* names by n, is stored as the string of n.
HistoryMessage(id, from, text, big) ==
    [id |-> id, from |-> from,
     text |-> IF from = "claude" THEN ToString(text) ELSE text, big |-> big]

\* The lines scanner.Scan() yields from one file: Scan stops for good at the
\* first line that does not fit its buffer.
ScanFile(file) ==
    LET bigAt == { i \in 1..Len(file) : file[i].big } IN
    IF bigAt = {} THEN file ELSE SubSeq(file, 1, SetMin(bigAt) - 1)

\* appendHistory: one record appended to the topic's file; topic 0 (a private
\* chat) is skipped.  The model keeps one file per topic: the records of one
\* hour.
appendHistory(hist, topicID, msg) ==
    IF topicID = 0 THEN hist ELSE [hist EXCEPT ![topicID] = Append(@, msg)]

\* readHistory over the topic's file.
readHistory(hist, topicID, afterID, limit, fromFilter) ==
    LET lim == IF limit <= 0 THEN 100 ELSE limit
        keep(m) == m.id > afterID /\ (fromFilter = "" \/ m.from = fromFilter)
        messages == SelectSeq(ScanFile(hist[topicID]), keep)
    IN IF Len(messages) > lim
       THEN SubSeq(messages, Len(messages) - lim + 1, Len(messages))
       ELSE messages

\* The dedup test of captureResponseAsync (lines 788-793) and of
\* appendHistoryDedup (lines 4091-4095): the last record of that sender has
\* this text.
LastHasText(hist, topicID, from, text) ==
    LET msgs == readHistory(hist, topicID, 0, 1, from) IN
    Len(msgs) > 0 /\ msgs[Len(msgs)].text = HistoryMessage(0, from, text, FALSE).text

SeqMax(ids) == IF ids = {} THEN 0 ELSE SetMax(ids)

\* The ids initMessageIDCounter sees, and the maxID it computes from them.
ScannedIDs(hist) ==
    UNION { { ScanFile(hist[t])[i].id : i \in 1..Len(ScanFile(hist[t])) } : t \in DOMAIN hist }

initMessageIDCounter(hist) == SeqMax(ScannedIDs(hist))

\* nextMessageID: the id issued, which is also the counter's new value.
nextMessageID(counter) == counter + 1

\* ------------------------------------------------------------ the system

\* Most prompts one session's terminal is sent.
MaxTurns == 2
\* Most records the history holds, over all topics.
MaxRecords == 3

\* cfg.Sessions: a local session and one on the remote host "srv".
Sessions == {"web", "srv:api"}
SessionHost(s) == IF s = "srv:api" THEN "srv" ELSE ""
\* A test that takes every session for a remote one.
IsRemoteAlways(s) == TRUE
IsRemote(s) == SessionHost(s) # ""
TopicID(s) == IF s = "web" THEN 1 ELSE 2
Topics == {TopicID(s) : s \in Sessions}

\* The session names a request carries: those of the configuration, one that
\* is not configured, and none.
RequestSessions == Sessions \cup {"nosuch", ""}
RequestTexts == {"q", ""}

\* Control-socket connections, each served by its own goroutine.  The first is
\* open from the start; the second is accepted later.
Conns == {"c1", "c2"}

\* The panes a poll of the running system may capture.
PollPanes ==
    { << <<"PROMPT">>, <<"BYPASS">> >>,
      << <<"PROMPT">>, <<"INTERRUPT">> >>,
      << <<"BULLET", "SP", "TXT">> >>,
      << <<"TXT">> >> }

VARIABLES
    pane,             \* the terminal of the pane specification
    call,             \* the last classifier or lifecycle call made on it
    configs,          \* the *Config objects: 0 is the one listen() loaded first
    botConfig,        \* the object the bot loop's variable config points to
    diskConfig,       \* ~/.ccc.json
    tmuxUp,           \* which sessions' terminal-multiplexer sessions exist
    turn,             \* prompts submitted to each session's agent so far
    hooked,           \* the last turn whose stop hook has run, per session
    history,          \* the history file of each topic
    messageIDCounter, \* of the listen process
    seedMax,          \* the largest id on disk when the counter was last seeded
    conn,             \* the handler goroutine of each connection
    activeCaptures,   \* the sync.Map of captureResponseAsync
    capTasks,         \* the capture goroutines that are running
    fwd,              \* a `ccc --from` process running handleRemoteMessage
    typingCancelers,  \* the registered typing context of each session, 0 if none
    typingTasks,      \* the typing goroutines that have not returned
    typingSeq,        \* typing contexts created so far
    typingExit        \* the readings of the typing goroutine that stopped last

paneVars == <<pane, call>>
cfgVars == <<configs, botConfig, diskConfig>>
termVars == <<tmuxUp, turn, hooked>>
histVars == <<history, messageIDCounter, seedMax>>
capVars == <<activeCaptures, capTasks>>
typingVars == <<typingCancelers, typingTasks, typingSeq, typingExit>>
vars == <<pane, call, configs, botConfig, diskConfig, tmuxUp, turn, hooked,
          history, messageIDCounter, seedMax, conn, activeCaptures, capTasks,
          fwd, typingCancelers, typingTasks, typingSeq, typingExit>>

NoTypingExit == [why |-> "none", reads |-> <<>>]

NoReply == [ok |-> FALSE, error |-> "none", id |-> 0, response |-> 0]
ErrReply(e) == [ok |-> FALSE, error |-> e, id |-> 0, response |-> 0]
OkReply(id, response) == [ok |-> TRUE, error |-> "", id |-> id, response |-> response]

\* A handler that waits for its next request line.  xport tells whether it
\* called the terminal transport (a probe, a capture, a creation or an
\* injection) for the request it answered last; msgID is the local variable
\* of handleAskCmd while its wait loop runs.
Ready(reply, cmd, sess) ==
    [pc |-> "ready", cmd |-> cmd, sess |-> sess, idleCount |-> 0,
     last |-> "none", reply |-> reply, xport |-> FALSE, msgID |-> 0]

Served(reply, cmd, sess) == [Ready(reply, cmd, sess) EXCEPT !.xport = TRUE]

\* No handler: the connection is not open.
Closed ==
    [pc |-> "closed", cmd |-> "none", sess |-> "", idleCount |-> 0,
     last |-> "none", reply |-> NoReply, xport |-> FALSE, msgID |-> 0]

InitConn == [c \in Conns |-> IF c = "c1" THEN Ready(NoReply, "none", "") ELSE Closed]

\* json.Encoder.Encode of an APIResponse, lines 137-148: the keys of the
\* object written.  "ok" carries no omitempty; an empty error, a zero
\* message id and an empty response are left out.
Encode(reply) ==
    {"ok"} \cup (IF reply.error # "" THEN {"error"} ELSE {})
           \cup (IF reply.id # 0 THEN {"message_id"} ELSE {})
           \cup (IF reply.response # 0 THEN {"response"} ELSE {})

NoCall == [op |-> "none"]
NoFwd == [pc |-> "none"]

TotalRecords == Len(history[1]) + Len(history[2])
AllIDs(hist) == UNION { { hist[t][i].id : i \in 1..Len(hist[t]) } : t \in DOMAIN hist }

Init ==
    /\ pane = <<>>
    /\ call = NoCall
    /\ configs = [o \in {0, 1} |-> [s \in Sessions |-> FALSE]]
    /\ botConfig = 0
    /\ diskConfig = [s \in Sessions |-> FALSE]
    /\ tmuxUp = [s \in Sessions |-> TRUE]
    /\ turn = [s \in Sessions |-> 0]
    /\ hooked = [s \in Sessions |-> 0]
    /\ history = [t \in Topics |-> <<>>]
    /\ messageIDCounter = 0
    /\ seedMax = 0
    /\ conn = InitConn
    /\ activeCaptures = {}
    /\ capTasks = {}
    /\ fwd = NoFwd
    /\ typingCancelers = [s \in Sessions |-> 0]
    /\ typingTasks = {}
    /\ typingSeq = 0
    /\ typingExit = NoTypingExit

\* What a capture may come to: the content of one of the panes, or a failure.
Captures(panes, remote) ==
    { [content |-> capturePane(p, remote), err |-> FALSE] : p \in panes }
    \cup { [content |-> <<>>, err |-> TRUE] }

\* The readings checkClaudeState may return on the captures of panes.
PollReadings(panes, remote) ==
    { checkClaudeState(k.content, k.err) : k \in Captures(panes, remote) }

\* The readings a poll of a running session may return, local or remote.
PollStatesLocal == PollReadings(PollPanes, FALSE)
PollStatesRemote == PollReadings(PollPanes, TRUE)
PollStates(remote) == IF remote THEN PollStatesRemote ELSE PollStatesLocal

\* ---------------------------------------------------- background capture

\* The goroutine captureResponseAsync starts.  tid tells it from the others:
\* the id of the message whose delivery started it.
CaptureTask(tid, sessionName) ==
    [tid |-> tid, sess |-> sessionName, topicID |-> TopicID(sessionName),
     pc |-> "poll", idleCount |-> 0, last |-> "none",
     response |-> 0]

\* captureResponseAsync without its guard: every call starts a goroutine.
captureResponseAsyncNoGuard(sessionName, tid, active, tasks) ==
    [active |-> active \cup {sessionName},
     tasks |-> tasks \cup {CaptureTask(tid, sessionName)}]

\* captureResponseAsync, lines 755-761: LoadOrStore on activeCaptures, then
\* the goroutine.  The result is the new map and the new set of goroutines.
captureResponseAsync(sessionName, tid, active, tasks) ==
    IF sessionName \in active
    THEN [active |-> active, tasks |-> tasks]
    ELSE [active |-> active \cup {sessionName},
          tasks |-> tasks \cup {CaptureTask(tid, sessionName)}]

\* One pass of the debounce of lines 647-674 and 778-806 on a reading: the new
\* idleCount.
DebounceKeepOnOther(idleCount, state) ==
    IF state = "idle" THEN idleCount + 1
    ELSE IF state = "busy" THEN 0 ELSE idleCount

Debounce(idleCount, state) ==
    IF state = "idle" THEN idleCount + 1 ELSE 0

\* What getLastClaudeResponse may return for a session: nothing (0 stands for
\* the empty string), or the agent's answer to the latest prompt, which the
\* model names by the number of that prompt.
Responses(s) == {0} \cup (IF turn[s] > 0 THEN {turn[s]} ELSE {})

\* The goroutine ends: defer activeCaptures.Delete(sessionName).
CaptureEnd(t) ==
    /\ capTasks' = capTasks \ {t}
    /\ activeCaptures' = activeCaptures \ {t.sess}

\* case <-ticker.C, lines 777-806, up to the decision that the agent settled.
CapturePoll(t) ==
    /\ t \in capTasks /\ t.pc = "poll"
    /\ \E state \in PollStates(IsRemote(t.sess)) :
         LET n == Debounce(t.idleCount, state)
         IN capTasks' = (capTasks \ {t}) \cup
                { [t EXCEPT !.idleCount = n, !.last = state,
                            !.pc = IF n >= 2 THEN "settled" ELSE "poll"] }
    /\ UNCHANGED <<paneVars, typingVars, cfgVars, termVars, histVars, conn, activeCaptures, fwd>>

\* An extraction that goes on to the append with an empty response.
CaptureExtractKeepsEmpty(t) ==
    /\ t \in capTasks /\ t.pc = "settled"
    /\ \E response \in Responses(t.sess) :
         IF LastHasText(history, t.topicID, "claude", response)
         THEN CaptureEnd(t)
         ELSE /\ capTasks' = (capTasks \ {t}) \cup
                     { [t EXCEPT !.pc = "append", !.response = response] }
              /\ UNCHANGED activeCaptures
    /\ UNCHANGED <<paneVars, typingVars, cfgVars, termVars, histVars, conn, fwd>>

\* Lines 783-793: the response is extracted and the last assistant record read.
CaptureExtract(t) ==
    /\ t \in capTasks /\ t.pc = "settled"
    /\ \E response \in Responses(t.sess) :
         IF response = 0 \/ LastHasText(history, t.topicID, "claude", response)
         THEN CaptureEnd(t)
         ELSE /\ capTasks' = (capTasks \ {t}) \cup
                     { [t EXCEPT !.pc = "append", !.response = response] }
              /\ UNCHANGED activeCaptures
    /\ UNCHANGED <<paneVars, typingVars, cfgVars, termVars, histVars, conn, fwd>>

\* Lines 795-802: the record is appended and the goroutine ends.
CaptureAppend(t) ==
    /\ t \in capTasks /\ t.pc = "append"
    /\ TotalRecords < MaxRecords
    /\ CaptureEnd(t)
    /\ LET id == nextMessageID(messageIDCounter) IN
         /\ messageIDCounter' = id
         /\ history' = appendHistory(history, t.topicID,
                                     HistoryMessage(id, "claude", t.response, FALSE))
    /\ UNCHANGED <<paneVars, typingVars, cfgVars, termVars, seedMax, conn, fwd>>

\* A timeout case that returns without the deferred delete of the guard.
CaptureTimeoutKeepsGuard(t) ==
    /\ t \in capTasks /\ t.pc = "poll"
    /\ capTasks' = capTasks \ {t}
    /\ UNCHANGED <<paneVars, typingVars, cfgVars, termVars, histVars, conn, fwd,
                   activeCaptures>>

\* case <-timeout, lines 774-776.
CaptureTimeout(t) ==
    /\ t \in capTasks /\ t.pc = "poll"
    /\ CaptureEnd(t)
    /\ UNCHANGED <<paneVars, typingVars, cfgVars, termVars, histVars, conn, fwd>>

\* --------------------------------------------------- control-socket handlers

\* The answers the terminal transport may give one call of
\* ensureSessionRunning for a session that is remote or not and whose
\* terminal-multiplexer session exists or not.
EnsureEnv(remote, exists) ==
    { [remote |-> remote, hostOK |-> hostOK, exists |-> exists,
       createErr |-> createErr, content1 |-> k1.content, err1 |-> k1.err,
       sendOk |-> sendOk, content2 |-> k2.content, err2 |-> k2.err] :
      hostOK \in (IF remote THEN BOOLEAN ELSE {TRUE}),
      createErr \in {"none", "duplicate", "other"},
      k1 \in Captures(PollPanes, remote), sendOk \in BOOLEAN,
      k2 \in Captures(PollPanes, remote) }

\* Whether the terminal-multiplexer session exists after the call: it did, the
\* call created it, or the creation found a duplicate.
ExistsAfterEnsure(e, r) ==
    \/ e.exists
    \/ r.created
    \/ (e.createErr = "duplicate" /\ ~(e.remote /\ ~e.hostOK))

\* The outcomes of ensureSessionRunning over those answers: the error string
\* and whether the terminal-multiplexer session exists afterwards.
EnsureOutcomesOf(remote, exists) ==
    { [err |-> ensureSessionRunning(e).err,
       up |-> ExistsAfterEnsure(e, ensureSessionRunning(e))] :
      e \in EnsureEnv(remote, exists) }

EnsureLocalDown == EnsureOutcomesOf(FALSE, FALSE)
EnsureLocalUp == EnsureOutcomesOf(FALSE, TRUE)
EnsureRemoteDown == EnsureOutcomesOf(TRUE, FALSE)
EnsureRemoteUp == EnsureOutcomesOf(TRUE, TRUE)

EnsureOutcomes(remote, exists) ==
    IF remote THEN (IF exists THEN EnsureRemoteUp ELSE EnsureRemoteDown)
    ELSE (IF exists THEN EnsureLocalUp ELSE EnsureLocalDown)

\* A lookup that does not look at the Deleted flag.
SessionFoundIgnoresDeleted(cfg, sess) == sess \in Sessions

\* The lookup of lines 568-572 in the server's configuration object: the
\* session is configured and not marked deleted.
SessionFound(cfg, sess) == sess \in Sessions /\ ~cfg[sess]

\* An ask that issues the id and stores the request's record before the
\* lifecycle check.
AskCmdStoreFirst(c, sess, text, big) ==
    /\ conn[c].pc = "ready"
    /\ IF sess = "" \/ text = ""
       THEN /\ conn' = [conn EXCEPT ![c] = Ready(ErrReply("session and text required"), "ask", "")]
            /\ UNCHANGED <<termVars, histVars>>
       ELSE IF ~SessionFound(configs[0], sess)
       THEN /\ conn' = [conn EXCEPT ![c] = Ready(ErrReply("session not found"), "ask", sess)]
            /\ UNCHANGED <<termVars, histVars>>
       ELSE \E r \in EnsureOutcomes(IsRemote(sess), tmuxUp[sess]) :
            IF r.err # ""
            THEN /\ conn' = [conn EXCEPT ![c] =
                        IF r.err = "host not configured"
                        THEN Ready(ErrReply(r.err), "ask", sess)
                        ELSE Served(ErrReply(r.err), "ask", sess)]
                 /\ tmuxUp' = [tmuxUp EXCEPT ![sess] = r.up]
                 /\ TotalRecords < MaxRecords
                 /\ messageIDCounter' = nextMessageID(messageIDCounter)
                 /\ history' = appendHistory(history, TopicID(sess),
                        HistoryMessage(nextMessageID(messageIDCounter), "api", text, big))
                 /\ UNCHANGED <<turn, hooked, seedMax>>
            ELSE /\ TotalRecords < MaxRecords /\ turn[sess] < MaxTurns
                 /\ tmuxUp' = [tmuxUp EXCEPT ![sess] = r.up]
                 /\ messageIDCounter' = nextMessageID(messageIDCounter)
                 /\ history' = appendHistory(history, TopicID(sess),
                        HistoryMessage(nextMessageID(messageIDCounter), "api", text, big))
                 /\ UNCHANGED <<hooked, seedMax>>
                 /\ \E sent \in BOOLEAN :
                      IF ~sent
                      THEN /\ conn' = [conn EXCEPT ![c] = Served(ErrReply("failed to send"), "ask", sess)]
                           /\ UNCHANGED turn
                      ELSE /\ turn' = [turn EXCEPT ![sess] = @ + 1]
                           /\ conn' = [conn EXCEPT ![c] =
                                 [pc |-> "wait", cmd |-> "ask", sess |-> sess,
                                  idleCount |-> 0, last |-> "none",
                                  reply |-> NoReply, xport |-> TRUE,
                                  msgID |-> nextMessageID(messageIDCounter)]]
    /\ UNCHANGED <<paneVars, typingVars, cfgVars, capVars, fwd>>

\* handleAskCmd, lines 562-640: up to the wait loop.
AskCmd(c, sess, text, big) ==
    /\ conn[c].pc = "ready"
    /\ IF sess = "" \/ text = ""
       THEN /\ conn' = [conn EXCEPT ![c] = Ready(ErrReply("session and text required"), "ask", "")]
            /\ UNCHANGED <<termVars, histVars>>
       ELSE IF ~SessionFound(configs[0], sess)
       THEN /\ conn' = [conn EXCEPT ![c] = Ready(ErrReply("session not found"), "ask", sess)]
            /\ UNCHANGED <<termVars, histVars>>
       ELSE \E r \in EnsureOutcomes(IsRemote(sess), tmuxUp[sess]) :
            IF r.err # ""
            THEN /\ conn' = [conn EXCEPT ![c] =
                        IF r.err = "host not configured"
                        THEN Ready(ErrReply(r.err), "ask", sess)
                        ELSE Served(ErrReply(r.err), "ask", sess)]
                 /\ tmuxUp' = [tmuxUp EXCEPT ![sess] = r.up]
                 /\ UNCHANGED <<turn, hooked, histVars>>
            ELSE /\ TotalRecords < MaxRecords /\ turn[sess] < MaxTurns
                 /\ tmuxUp' = [tmuxUp EXCEPT ![sess] = r.up]
                 /\ messageIDCounter' = nextMessageID(messageIDCounter)
                 /\ history' = appendHistory(history, TopicID(sess),
                        HistoryMessage(nextMessageID(messageIDCounter), "api", text, big))
                 /\ UNCHANGED <<hooked, seedMax>>
                 /\ \E sent \in BOOLEAN :
                      IF ~sent
                      THEN /\ conn' = [conn EXCEPT ![c] = Served(ErrReply("failed to send"), "ask", sess)]
                           /\ UNCHANGED turn
                      ELSE /\ turn' = [turn EXCEPT ![sess] = @ + 1]
                           /\ conn' = [conn EXCEPT ![c] =
                                 [pc |-> "wait", cmd |-> "ask", sess |-> sess,
                                  idleCount |-> 0, last |-> "none",
                                  reply |-> NoReply, xport |-> TRUE,
                                  msgID |-> nextMessageID(messageIDCounter)]]
    /\ UNCHANGED <<paneVars, typingVars, cfgVars, capVars, fwd>>

\* case <-ticker.C of the wait loop, lines 646-650 and 672-674, on the readings
\* the session's pane may give, local or remote.
AskPoll(c, local, remote) ==
    /\ conn[c].pc = "wait"
    /\ \E state \in (IF IsRemote(conn[c].sess) THEN remote ELSE local) :
         LET n == Debounce(conn[c].idleCount, state)
         IN conn' = [conn EXCEPT ![c].idleCount = n, ![c].last = state,
                                 ![c].pc = IF n >= 2 THEN "settled" ELSE "wait"]
    /\ UNCHANGED <<paneVars, typingVars, cfgVars, termVars, histVars, capVars, fwd>>

\* An extraction that returns the id of the request's record.
AskExtractReturnsRequestId(c) ==
    /\ conn[c].pc = "settled"
    /\ TotalRecords < MaxRecords
    /\ \E response \in Responses(conn[c].sess) :
         LET responseMsgID == nextMessageID(messageIDCounter) IN
         /\ messageIDCounter' = responseMsgID
         /\ history' = appendHistory(history, TopicID(conn[c].sess),
                          HistoryMessage(responseMsgID, "claude", response, FALSE))
         /\ conn' = [conn EXCEPT ![c] =
                Served(OkReply(conn[c].msgID, response), "ask", conn[c].sess)]
    /\ UNCHANGED <<paneVars, typingVars, cfgVars, termVars, seedMax, capVars, fwd>>

\* Lines 651-670: the response is extracted, stored and returned.
AskExtract(c) ==
    /\ conn[c].pc = "settled"
    /\ TotalRecords < MaxRecords
    /\ \E response \in Responses(conn[c].sess) :
         LET responseMsgID == nextMessageID(messageIDCounter) IN
         /\ messageIDCounter' = responseMsgID
         /\ history' = appendHistory(history, TopicID(conn[c].sess),
                          HistoryMessage(responseMsgID, "claude", response, FALSE))
         /\ conn' = [conn EXCEPT ![c] =
                Served(OkReply(responseMsgID, response), "ask", conn[c].sess)]
    /\ UNCHANGED <<paneVars, typingVars, cfgVars, termVars, seedMax, capVars, fwd>>

\* A wait loop whose timeout case starts the wait over.
AskTimeoutRearm(c) ==
    /\ conn[c].pc = "wait"
    /\ conn' = [conn EXCEPT ![c].idleCount = 0]
    /\ UNCHANGED <<paneVars, typingVars, cfgVars, termVars, histVars, capVars, fwd>>

\* A timeout case that takes the request's record out of the history again.
AskTimeoutRollback(c) ==
    /\ conn[c].pc = "wait"
    /\ conn' = [conn EXCEPT ![c] =
           Served(ErrReply("timeout waiting for response"), "ask", conn[c].sess)]
    /\ history' = [history EXCEPT ![TopicID(conn[c].sess)] =
                      SelectSeq(@, LAMBDA m : m.id # conn[c].msgID)]
    /\ UNCHANGED <<paneVars, typingVars, cfgVars, termVars, messageIDCounter, seedMax,
                   capVars, fwd>>

\* A timeout case that returns without writing a response.
AskTimeoutSilent(c) ==
    /\ conn[c].pc = "wait"
    /\ conn' = [conn EXCEPT ![c] = Served(NoReply, "ask", conn[c].sess)]
    /\ UNCHANGED <<paneVars, typingVars, cfgVars, termVars, histVars, capVars, fwd>>

\* case <-timeout, lines 643-645: the five minutes of time.After have passed.
AskTimeout(c) ==
    /\ conn[c].pc = "wait"
    /\ conn' = [conn EXCEPT ![c] =
           Served(ErrReply("timeout waiting for response"), "ask", conn[c].sess)]
    /\ UNCHANGED <<paneVars, typingVars, cfgVars, termVars, histVars, capVars, fwd>>

\* A send that injects the text first and stores the record only when the
\* injection succeeded.
SendCmdInjectFirst(c, sess, text, big) ==
    /\ conn[c].pc = "ready"
    /\ IF sess = "" \/ text = ""
       THEN /\ conn' = [conn EXCEPT ![c] = Ready(ErrReply("session and text required"), "send", "")]
            /\ UNCHANGED <<termVars, histVars, capVars>>
       ELSE IF ~SessionFound(configs[0], sess)
       THEN /\ conn' = [conn EXCEPT ![c] = Ready(ErrReply("session not found"), "send", sess)]
            /\ UNCHANGED <<termVars, histVars, capVars>>
       ELSE \E r \in EnsureOutcomes(IsRemote(sess), tmuxUp[sess]) :
            IF r.err # ""
            THEN /\ conn' = [conn EXCEPT ![c] =
                        IF r.err = "host not configured"
                        THEN Ready(ErrReply(r.err), "send", sess)
                        ELSE Served(ErrReply(r.err), "send", sess)]
                 /\ tmuxUp' = [tmuxUp EXCEPT ![sess] = r.up]
                 /\ UNCHANGED <<turn, hooked, histVars, capVars>>
            ELSE /\ TotalRecords < MaxRecords /\ turn[sess] < MaxTurns
                 /\ tmuxUp' = [tmuxUp EXCEPT ![sess] = r.up]
                 /\ \E sent \in BOOLEAN :
                      IF ~sent
                      THEN /\ conn' = [conn EXCEPT ![c] = Served(ErrReply("failed to send"), "send", sess)]
                           /\ UNCHANGED <<turn, hooked, histVars, capVars>>
                      ELSE /\ turn' = [turn EXCEPT ![sess] = @ + 1]
                           /\ messageIDCounter' = nextMessageID(messageIDCounter)
                           /\ history' = appendHistory(history, TopicID(sess),
                                  HistoryMessage(nextMessageID(messageIDCounter), "api", text, big))
                           /\ UNCHANGED <<hooked, seedMax>>
                           /\ conn' = [conn EXCEPT ![c] =
                                 Served(OkReply(nextMessageID(messageIDCounter), 0), "send", sess)]
                           /\ IF IsRemote(sess)
                              THEN LET cap == captureResponseAsync(sess,
                                                nextMessageID(messageIDCounter),
                                                activeCaptures, capTasks)
                                   IN /\ activeCaptures' = cap.active
                                      /\ capTasks' = cap.tasks
                              ELSE UNCHANGED capVars
    /\ UNCHANGED <<paneVars, typingVars, cfgVars, fwd>>

\* handleSendCmd, lines 680-750.
SendCmd(c, sess, text, big) ==
    /\ conn[c].pc = "ready"
    /\ IF sess = "" \/ text = ""
       THEN /\ conn' = [conn EXCEPT ![c] = Ready(ErrReply("session and text required"), "send", "")]
            /\ UNCHANGED <<termVars, histVars, capVars>>
       ELSE IF ~SessionFound(configs[0], sess)
       THEN /\ conn' = [conn EXCEPT ![c] = Ready(ErrReply("session not found"), "send", sess)]
            /\ UNCHANGED <<termVars, histVars, capVars>>
       ELSE \E r \in EnsureOutcomes(IsRemote(sess), tmuxUp[sess]) :
            IF r.err # ""
            THEN /\ conn' = [conn EXCEPT ![c] =
                        IF r.err = "host not configured"
                        THEN Ready(ErrReply(r.err), "send", sess)
                        ELSE Served(ErrReply(r.err), "send", sess)]
                 /\ tmuxUp' = [tmuxUp EXCEPT ![sess] = r.up]
                 /\ UNCHANGED <<turn, hooked, histVars, capVars>>
            ELSE /\ TotalRecords < MaxRecords /\ turn[sess] < MaxTurns
                 /\ tmuxUp' = [tmuxUp EXCEPT ![sess] = r.up]
                 /\ messageIDCounter' = nextMessageID(messageIDCounter)
                 /\ history' = appendHistory(history, TopicID(sess),
                        HistoryMessage(nextMessageID(messageIDCounter), "api", text, big))
                 /\ UNCHANGED <<hooked, seedMax>>
                 /\ \E sent \in BOOLEAN :
                      IF ~sent
                      THEN /\ conn' = [conn EXCEPT ![c] = Served(ErrReply("failed to send"), "send", sess)]
                           /\ UNCHANGED <<turn, capVars>>
                      ELSE /\ turn' = [turn EXCEPT ![sess] = @ + 1]
                           /\ conn' = [conn EXCEPT ![c] =
                                 Served(OkReply(nextMessageID(messageIDCounter), 0), "send", sess)]
                           /\ IF IsRemote(sess)
                              THEN LET cap == captureResponseAsync(sess,
                                                nextMessageID(messageIDCounter),
                                                activeCaptures, capTasks)
                                   IN /\ activeCaptures' = cap.active
                                      /\ capTasks' = cap.tasks
                              ELSE UNCHANGED capVars
    /\ UNCHANGED <<paneVars, typingVars, cfgVars, fwd>>

\* ------------------------------------------------------------ the bot loop

\* loadConfig() assigned to the bot loop's variable: a fresh object, read from
\* the file.  The socket server keeps the object startSocketServer was given.
Reloaded(objs, disk) == [objs EXCEPT ![1] = disk]

\* Lines 5194-5212 and 5236-5246: whether the message goes on to the terminal,
\* over the answers of the transport: the host has an address, the session
\* exists, and the agent runs or the one restart brought it back.
ForwardOutcomesOf(remote, exists) ==
    { /\ hostOK /\ exists
      /\ \/ isClaudeRunning(k1.content, k1.err)
         \/ restartClaudeInSession(sendOk, k2.content, k2.err) :
      hostOK \in (IF remote THEN BOOLEAN ELSE {TRUE}),
      k1 \in Captures(PollPanes, remote), sendOk \in BOOLEAN,
      k2 \in Captures(PollPanes, remote) }

ForwardLocalUp == ForwardOutcomesOf(FALSE, TRUE)
ForwardRemoteUp == ForwardOutcomesOf(TRUE, TRUE)

ForwardOutcomes(remote, exists) ==
    IF ~exists THEN {FALSE}
    ELSE IF remote THEN ForwardRemoteUp ELSE ForwardLocalUp

\* A text message in the topic of session s, lines 5176-5262: the
\* configuration is reloaded, the session probed and restarted if it crashed,
\* the message stored, typed into the terminal and, for a remote session, the
\* capture started.
BotForward(s) ==
    /\ configs' = Reloaded(configs, diskConfig)
    /\ botConfig' = 1
    /\ UNCHANGED <<diskConfig, paneVars, typingVars, tmuxUp, hooked, seedMax, conn, fwd>>
    /\ \E delivers \in ForwardOutcomes(IsRemote(s), tmuxUp[s]), sent \in BOOLEAN :
         IF ~delivers
         THEN UNCHANGED <<turn, history, messageIDCounter, capVars>>
         ELSE /\ TotalRecords < MaxRecords /\ turn[s] < MaxTurns
              /\ messageIDCounter' = nextMessageID(messageIDCounter)
              /\ history' = appendHistory(history, TopicID(s),
                     HistoryMessage(nextMessageID(messageIDCounter), "human", "q", FALSE))
              /\ IF ~sent
                 THEN UNCHANGED <<turn, capVars>>
                 ELSE /\ turn' = [turn EXCEPT ![s] = @ + 1]
                      /\ IF IsRemote(s)
                         THEN LET cap == captureResponseAsync(s,
                                           nextMessageID(messageIDCounter),
                                           activeCaptures, capTasks)
                              IN /\ activeCaptures' = cap.active
                                 /\ capTasks' = cap.tasks
                         ELSE UNCHANGED capVars

\* killSession, lines 2534-2559, on the configuration object it is given: the
\* record stays, marked deleted.
killSession(cfg, name) == [cfg EXCEPT ![name] = TRUE]

\* "/kill name", lines 4863-4873: killSession on the bot loop's object, saved,
\* and the bot loop's variable reloaded.  The kill command of the terminal
\* multiplexer may fail; its result is not looked at.
BotKill(name) ==
    LET killed == killSession(configs[botConfig], name) IN
    /\ \E gone \in BOOLEAN : tmuxUp' = [tmuxUp EXCEPT ![name] = @ /\ ~gone]
    /\ diskConfig' = killed
    /\ configs' = Reloaded([configs EXCEPT ![botConfig] = killed], killed)
    /\ botConfig' = 1
    /\ UNCHANGED <<paneVars, typingVars, turn, hooked, histVars, conn, capVars, fwd>>

\* "/new name" for a session the configuration holds, lines 4955-5075: the
\* bot loop's variable is reloaded, the record found and its topic reused
\* (4992-4996) with nothing written to it, the terminal session killed if it
\* runs and created anew, which may fail or die at once.
BotNew(name) ==
    /\ configs' = Reloaded(configs, diskConfig)
    /\ botConfig' = 1
    /\ \E started \in BOOLEAN : tmuxUp' = [tmuxUp EXCEPT ![name] = started]
    /\ UNCHANGED <<diskConfig, paneVars, typingVars, turn, hooked, histVars, conn,
                   capVars, fwd>>

\* `ccc register-session host path`, lines 5513-5540, a process of its own:
\* it loads the configuration file, and getOrCreateTopic (2027-2052) finds the
\* record, clears its deleted marker and saves the file.
RegisterSession(s) ==
    /\ IsRemote(s)
    /\ diskConfig' = [diskConfig EXCEPT ![s] = FALSE]
    /\ UNCHANGED <<configs, botConfig, paneVars, typingVars, termVars, histVars,
                   conn, capVars, fwd>>

\* --------------------------------------------------------- hook processes

\* `ccc hook`, `ccc hook-prompt` and `ccc --from` are processes of their own:
\* their messageIDCounter starts at zero and only listen() seeds it.
HookCounter == 0

\* handleHook, lines 2796-2893, for the local session whose agent finished a
\* turn: the last assistant message goes to the history.
HookStop(s) ==
    /\ ~IsRemote(s) /\ ~diskConfig[s]
    /\ hooked[s] < turn[s]
    /\ TotalRecords < MaxRecords
    /\ hooked' = [hooked EXCEPT ![s] = turn[s]]
    /\ history' = appendHistory(history, TopicID(s),
           HistoryMessage(nextMessageID(HookCounter), "claude", turn[s], FALSE))
    /\ UNCHANGED <<paneVars, typingVars, cfgVars, tmuxUp, turn, messageIDCounter, seedMax,
                   conn, capVars, fwd>>

\* handlePromptHook, lines 3071-3133, for a prompt typed at the terminal of a
\* local session.
HookPrompt(s) ==
    /\ ~IsRemote(s)
    /\ TotalRecords < MaxRecords /\ turn[s] < MaxTurns
    /\ turn' = [turn EXCEPT ![s] = @ + 1]
    /\ history' = appendHistory(history, TopicID(s),
           HistoryMessage(nextMessageID(HookCounter), "human", "q", FALSE))
    /\ UNCHANGED <<paneVars, typingVars, cfgVars, tmuxUp, hooked, messageIDCounter, seedMax,
                   conn, capVars, fwd>>

\* handleRemoteMessage, lines 3987-4038, for the stop hook a remote client
\* forwards: appendHistoryDedup reads the last assistant record (line 4091).
FwdRead(s) ==
    /\ IsRemote(s) /\ fwd = NoFwd
    /\ hooked[s] < turn[s]
    /\ hooked' = [hooked EXCEPT ![s] = turn[s]]
    /\ fwd' = IF LastHasText(history, TopicID(s), "claude", turn[s])
              THEN NoFwd
              ELSE [pc |-> "append", topicID |-> TopicID(s), text |-> turn[s]]
    /\ UNCHANGED <<paneVars, typingVars, cfgVars, tmuxUp, turn, histVars, conn, capVars>>

\* appendHistoryDedup, lines 4096-4101: the append that follows the read.
FwdAppend ==
    /\ fwd # NoFwd
    /\ TotalRecords < MaxRecords
    /\ history' = appendHistory(history, fwd.topicID,
           HistoryMessage(nextMessageID(HookCounter), "claude", fwd.text, FALSE))
    /\ fwd' = NoFwd
    /\ UNCHANGED <<paneVars, typingVars, cfgVars, termVars, messageIDCounter, seedMax, conn,
                   capVars>>

\* ------------------------------------------------------ the listen process

\* `ccc listen` is started again, lines 4300-4326: the goroutines of the old
\* process are gone, the configuration is loaded and the counter seeded.
ListenRestart ==
    /\ configs' = [o \in {0, 1} |-> diskConfig]
    /\ botConfig' = 0
    /\ messageIDCounter' = initMessageIDCounter(history)
    /\ seedMax' = SeqMax(AllIDs(history))
    /\ conn' = InitConn
    /\ activeCaptures' = {}
    /\ capTasks' = {}
    /\ typingCancelers' = [s \in Sessions |-> 0]
    /\ typingTasks' = {}
    /\ UNCHANGED <<paneVars, typingSeq, typingExit, diskConfig, termVars, history, fwd>>

\* The control socket, the capture goroutines, the chat forward and the hooks.
Next ==
    \/ \E c \in Conns, sess \in Sessions : AskCmd(c, sess, "q", FALSE)
    \/ \E c \in Conns : AskPoll(c, PollStatesLocal, PollStatesRemote)
    \/ \E c \in Conns : AskExtract(c)
    \/ \E c \in Conns : AskTimeout(c)
    \/ \E c \in Conns, sess \in Sessions : SendCmd(c, sess, "q", FALSE)
    \/ \E t \in capTasks : CapturePoll(t)
    \/ \E t \in capTasks : CaptureExtract(t)
    \/ \E t \in capTasks : CaptureAppend(t)
    \/ \E t \in capTasks : CaptureTimeout(t)
    \/ \E s \in Sessions : BotForward(s)
    \/ \E s \in Sessions : FwdRead(s)
    \/ FwdAppend

Spec == Init /\ [][Next]_vars

\* ------------------------------------- the ask that never sees a prompt

\* The panes of a session whose terminal never shows the prompt glyph.
NoPromptPanes == { p \in PollPanes : ~HasIndicator(p, {"PROMPT"}) }

NoPromptLocal == PollReadings(NoPromptPanes, FALSE)
NoPromptRemote == PollReadings(NoPromptPanes, TRUE)

\* Asks on sessions of that kind.  The timeout case of the wait loop's select
\* is ready for good once the five minutes of time.After have passed, and a
\* select with several ready cases picks one at random: the case is taken.
NextAskLive ==
    \/ \E c \in Conns, sess \in RequestSessions, text \in RequestTexts :
         AskCmd(c, sess, text, FALSE)
    \/ \E c \in Conns : AskPoll(c, NoPromptLocal, NoPromptRemote)
    \/ \E c \in Conns : AskTimeout(c)

SpecAskLive ==
    Init /\ [][NextAskLive]_vars /\ \A c \in Conns : WF_vars(AskTimeout(c))

\* --------------------------------------------- the message ids on disk

\* Sends whose stored record may be longer than a scanner line, the capture,
\* the hook processes, and restarts of the listen process.
NextIds ==
    \/ \E c \in Conns, sess \in Sessions, big \in BOOLEAN :
         SendCmd(c, sess, "q", big)
    \/ \E t \in capTasks : CapturePoll(t)
    \/ \E t \in capTasks : CaptureExtract(t)
    \/ \E t \in capTasks : CaptureAppend(t)
    \/ \E t \in capTasks : CaptureTimeout(t)
    \/ \E s \in Sessions : HookStop(s)
    \/ \E s \in Sessions : HookPrompt(s)
    \/ \E s \in Sessions : FwdRead(s)
    \/ FwdAppend
    \/ ListenRestart

SpecIds == Init /\ [][NextIds]_vars

\* ------------------------------------------- kills and the control socket

\* Requests on the control socket while the bot loop forwards chat messages
\* and kills sessions, and restarts of the listen process.
NextConfig ==
    \/ \E c \in Conns, sess \in Sessions : AskCmd(c, sess, "q", FALSE)
    \/ \E c \in Conns : AskTimeout(c)
    \/ \E c \in Conns, sess \in Sessions : SendCmd(c, sess, "q", FALSE)
    \/ \E t \in capTasks : CaptureTimeout(t)
    \/ \E s \in Sessions : BotForward(s)
    \/ \E s \in Sessions : BotKill(s)
    \/ ListenRestart

SpecConfig == Init /\ [][NextConfig]_vars

\* ------------------------------------------------- the pane specification

\* The lines the pane specification types into the terminal: a blank line, the
\* prompt glyph alone, padded, and followed by typed text, the "> " of an
\* older prompt, plain text, a separator that carries a spinner, the status
\* bar with an interrupt hint, an interrupt hint, a spinner with its phrase.
PaneLines ==
    { <<>>,
      <<"PROMPT">>,
      <<"SP", "PROMPT", "SP">>,
      <<"PROMPT", "SP", "TXT">>,
      <<"GT", "SP">>,
      <<"TXT">>,
      <<"RULE", "SPIN1">>,
      <<"BYPASS", "SP", "INTERRUPT">>,
      <<"INTERRUPT">>,
      <<"SPIN2", "SP", "THINKING">> }

\* The pane of an agent that waits for input.
AgentPane == << <<"PROMPT">>, <<"BYPASS">> >>

\* One more line is printed in the terminal.
PaneType(line) ==
    /\ Len(pane) < MaxPaneLines
    /\ pane' = Append(pane, line)
    /\ call' = NoCall
    /\ UNCHANGED <<cfgVars, termVars, histVars, conn, capVars, fwd, typingVars>>

\* checkClaudeState is called on the terminal as it stands, local or remote;
\* err is whether the capture command fails.  The next line typed clears the
\* record of the call.
CheckStateCall(remote, err) ==
    LET content == IF err THEN <<>> ELSE capturePane(pane, remote) IN
    /\ call = NoCall
    /\ call' = [op |-> "checkClaudeState", remote |-> remote, err |-> err,
                content |-> content, state |-> checkClaudeState(content, err)]
    /\ UNCHANGED <<pane, cfgVars, termVars, histVars, conn, capVars, fwd, typingVars>>

\* The answers the transport may give one call of ensureSessionRunning on the
\* terminal: the first capture shows the pane or fails, the one after a restart
\* shows the agent, the pane as it was, or fails.  An answer the call does not
\* ask for is left at a fixed value.
PaneEnsureEnv ==
    LET all ==
          { [remote |-> remote, hostOK |-> hostOK, exists |-> exists,
             createErr |-> createErr,
             content1 |-> IF err1 THEN <<>> ELSE capturePane(pane, remote),
             err1 |-> err1, sendOk |-> sendOk,
             content2 |-> IF k = "fail" THEN <<>>
                          ELSE IF k = "agent" THEN capturePane(AgentPane, remote)
                          ELSE capturePane(pane, remote),
             err2 |-> (k = "fail")] :
            remote \in BOOLEAN, hostOK \in BOOLEAN, exists \in BOOLEAN,
            createErr \in {"none", "duplicate", "other"}, err1 \in BOOLEAN,
            sendOk \in BOOLEAN, k \in {"agent", "same", "fail"} }
        fixed(e) == ~e.err1 /\ e.sendOk /\ ~e.err2
                    /\ e.content2 = capturePane(pane, e.remote)
    IN { e \in all :
           /\ e.remote \/ e.hostOK
           /\ e.exists => e.createErr = "none"
           /\ ~e.hostOK => (e.exists /\ fixed(e))
           /\ (~e.exists /\ e.createErr = "other") => fixed(e)
           /\ ~e.sendOk => (~e.err2 /\ e.content2 = capturePane(pane, e.remote)) }

\* The bot loop's way of a chat text to its session, lines 5194-5262, on the
\* answers of the terminal transport (as for ensureSessionRunning) and on
\* whether the injection of the text succeeded.  The result: restarts (calls
\* of restartClaudeInSession), typed (the relaunch commands that reached the
\* terminal), notices (the messages sent to the chat, in order), and whether
\* the typing task was started, whether it was stopped again, whether the
\* record was stored, the text injected and the capture task asked for.
forwardDeliver(e, sent, restarts, typed, notices) ==
    [restarts |-> restarts, typed |-> typed,
     notices |-> IF sent THEN notices ELSE notices \o <<"failed to send">>,
     typing |-> TRUE, typingStopped |-> ~sent, stored |-> TRUE,
     injected |-> sent, capture |-> e.remote /\ sent]

\* A forward that delivers the message although the restart failed.
forwardTextDeliversAnyway(e, sent) ==
    LET stop(notices) ==
          [restarts |-> 0, typed |-> <<>>, notices |-> notices, typing |-> FALSE,
           typingStopped |-> FALSE, stored |-> FALSE, injected |-> FALSE,
           capture |-> FALSE]
        typed == IF e.sendOk THEN <<"relaunch">> ELSE <<>>
    IN
    IF e.remote /\ ~e.hostOK THEN stop(<<"host not configured">>)
    ELSE IF ~e.exists THEN stop(<<"session not running">>)
    ELSE IF isClaudeRunning(e.content1, e.err1)
    THEN forwardDeliver(e, sent, 0, <<>>, <<>>)
    ELSE forwardDeliver(e, sent, 1, typed, <<"restarting">>)

forwardText(e, sent) ==
    LET stop(notices) ==
          [restarts |-> 0, typed |-> <<>>, notices |-> notices, typing |-> FALSE,
           typingStopped |-> FALSE, stored |-> FALSE, injected |-> FALSE,
           capture |-> FALSE]
        typed == IF e.sendOk THEN <<"relaunch">> ELSE <<>>
    IN
    IF e.remote /\ ~e.hostOK THEN stop(<<"host not configured">>)
    ELSE IF ~e.exists THEN stop(<<"session not running">>)
    ELSE IF isClaudeRunning(e.content1, e.err1)
    THEN forwardDeliver(e, sent, 0, <<>>, <<>>)
    ELSE IF ~restartClaudeInSession(e.sendOk, e.content2, e.err2)
    THEN [stop(<<"restarting", "failed to restart">>) EXCEPT
            !.restarts = 1, !.typed = typed]
    ELSE forwardDeliver(e, sent, 1, typed, <<"restarting", "restarted">>)

\* One chat text forwarded on the pane as it is.
ForwardCall ==
    /\ call = NoCall
    /\ \E e \in PaneEnsureEnv, sent \in BOOLEAN :
         /\ e.createErr = "none"
         /\ call' = [op |-> "forward", e |-> e, sent |-> sent,
                     r |-> forwardText(e, sent)]
    /\ UNCHANGED <<pane, cfgVars, termVars, histVars, conn, capVars, fwd, typingVars>>

\* ensureSessionRunning is called for the session of the terminal.
EnsureCall ==
    /\ call = NoCall
    /\ \E e \in PaneEnsureEnv :
         call' = [op |-> "ensureSessionRunning", e |-> e,
                  r |-> ensureSessionRunning(e)]
    /\ UNCHANGED <<pane, cfgVars, termVars, histVars, conn, capVars, fwd, typingVars>>

NextPane ==
    \/ \E line \in PaneLines : PaneType(line)
    \/ \E remote \in BOOLEAN, err \in BOOLEAN : CheckStateCall(remote, err)
    \/ EnsureCall
    \/ ForwardCall

SpecPane == Init /\ [][NextPane]_vars

\* ------------------------------------------------ the connection loop

\* listener.Accept, lines 359-367: a goroutine serves the new connection.
ConnAccept(c) ==
    /\ conn[c].pc = "closed"
    /\ conn' = [conn EXCEPT ![c] = Ready(NoReply, "none", "")]
    /\ UNCHANGED <<paneVars, typingVars, cfgVars, termVars, histVars, capVars, fwd>>

\* Lines 390-393: ReadBytes fails because the peer closed the connection; the
\* handler returns and the deferred Close runs.
ConnClose(c) ==
    /\ conn[c].pc = "ready"
    /\ conn' = [conn EXCEPT ![c] = Closed]
    /\ UNCHANGED <<paneVars, typingVars, cfgVars, termVars, histVars, capVars, fwd>>

\* A handler that returns after the reply to a line it cannot decode.
BadLineCloses(c) ==
    /\ conn[c].pc = "ready"
    /\ conn' = [conn EXCEPT ![c] =
           [Closed EXCEPT !.cmd = "invalid", !.reply = ErrReply("invalid JSON")]]
    /\ UNCHANGED <<paneVars, typingVars, cfgVars, termVars, histVars, capVars, fwd>>

\* Lines 395-399: json.Unmarshal fails on the line; the loop goes on.
BadLine(c) ==
    /\ conn[c].pc = "ready"
    /\ conn' = [conn EXCEPT ![c] = Ready(ErrReply("invalid JSON"), "invalid", "")]
    /\ UNCHANGED <<paneVars, typingVars, cfgVars, termVars, histVars, capVars, fwd>>

\* Lines 417-419: the default case of the switch on req.Cmd.
UnknownCmd(c) ==
    /\ conn[c].pc = "ready"
    /\ conn' = [conn EXCEPT ![c] = Ready(ErrReply("unknown command"), "unknown", "")]
    /\ UNCHANGED <<paneVars, typingVars, cfgVars, termVars, histVars, capVars, fwd>>

\* A request line with cmd "continue", lines 401-419: the switch has no case
\* for it, so it is answered by the default case like any unknown command.
ContinueCmd(c, sess) ==
    /\ conn[c].pc = "ready"
    /\ conn' = [conn EXCEPT ![c] = Ready(ErrReply("unknown command"), "continue", sess)]
    /\ UNCHANGED <<paneVars, typingVars, cfgVars, termVars, histVars, capVars, fwd>>

\* handlePingCmd, lines 424-439: no terminal is touched.
PingCmd(c) ==
    /\ conn[c].pc = "ready"
    /\ conn' = [conn EXCEPT ![c] = Ready(OkReply(0, 0), "ping", "")]
    /\ UNCHANGED <<paneVars, typingVars, cfgVars, termVars, histVars, capVars, fwd>>

\* handleSocketConnection, lines 383-421, for connections that come and go:
\* every line a peer may write, and the loops the handlers start.
NextSock ==
    \/ \E c \in Conns : ConnAccept(c)
    \/ \E c \in Conns : ConnClose(c)
    \/ \E c \in Conns : BadLine(c)
    \/ \E c \in Conns : UnknownCmd(c)
    \/ \E c \in Conns : PingCmd(c)
    \/ \E c \in Conns, sess \in RequestSessions, text \in RequestTexts :
         AskCmd(c, sess, text, FALSE)
    \/ \E c \in Conns : AskPoll(c, PollStatesLocal, PollStatesRemote)
    \/ \E c \in Conns : AskExtract(c)
    \/ \E c \in Conns : AskTimeout(c)
    \/ \E c \in Conns, sess \in RequestSessions, text \in RequestTexts :
         SendCmd(c, sess, text, FALSE)
    \/ \E t \in capTasks : CaptureTimeout(t)

SpecSock == Init /\ [][NextSock]_vars

\* Two peers, one that sends on the first connection and one that asks on
\* the second, with requests of every kind, while the bot loop kills the local
\* session; the asks wait until they time out.
NextReject ==
    \/ \E c \in Conns : ConnAccept(c)
    \/ \E sess \in RequestSessions, text \in RequestTexts :
         AskCmd("c2", sess, text, FALSE)
    \/ \E c \in Conns : AskTimeout(c)
    \/ \E sess \in RequestSessions, text \in RequestTexts :
         SendCmd("c1", sess, text, FALSE)
    \/ \E t \in capTasks : CaptureTimeout(t)
    \/ BotKill("web")

SpecReject == Init /\ [][NextReject]_vars

\* ------------------------------------------------ the send handler in steps

\* Handlers of different connections run in goroutines of their own, and
\* handleSendCmd takes its id (line 713) and appends its record (lines
\* 714-720) in two calls with nothing held between them.  Here the handler
\* runs in two steps so that the steps of two connections may alternate.
\* Lines 680-713: the validation, the lookup, the lifecycle check and the id;
\* a request that fails before the id is answered at once.
SendIssue(c, sess, text) ==
    /\ conn[c].pc = "ready"
    /\ IF sess = "" \/ text = ""
       THEN /\ conn' = [conn EXCEPT ![c] = Ready(ErrReply("session and text required"), "send", "")]
            /\ UNCHANGED <<tmuxUp, messageIDCounter>>
       ELSE IF ~SessionFound(configs[0], sess)
       THEN /\ conn' = [conn EXCEPT ![c] = Ready(ErrReply("session not found"), "send", sess)]
            /\ UNCHANGED <<tmuxUp, messageIDCounter>>
       ELSE \E r \in EnsureOutcomes(IsRemote(sess), tmuxUp[sess]) :
            /\ tmuxUp' = [tmuxUp EXCEPT ![sess] = r.up]
            /\ IF r.err # ""
               THEN /\ conn' = [conn EXCEPT ![c] =
                           IF r.err = "host not configured"
                           THEN Ready(ErrReply(r.err), "send", sess)
                           ELSE Served(ErrReply(r.err), "send", sess)]
                    /\ UNCHANGED messageIDCounter
               ELSE /\ TotalRecords + Cardinality({ d \in Conns : conn[d].pc = "issued" })
                         < MaxRecords
                    /\ messageIDCounter' = nextMessageID(messageIDCounter)
                    /\ conn' = [conn EXCEPT ![c] =
                          [pc |-> "issued", cmd |-> "send", sess |-> sess,
                           idleCount |-> 0, last |-> "none", reply |-> NoReply,
                           xport |-> TRUE, msgID |-> nextMessageID(messageIDCounter)]]
    /\ UNCHANGED <<paneVars, typingVars, cfgVars, turn, hooked, history, seedMax,
                   capVars, fwd>>

\* Lines 714-750: the record is appended under the id taken before, the text
\* typed, the request answered and, for a remote session, the capture
\* started.
SendStore(c) ==
    /\ conn[c].pc = "issued"
    /\ history' = appendHistory(history, TopicID(conn[c].sess),
                      HistoryMessage(conn[c].msgID, "api", "q", FALSE))
    /\ \E sent \in BOOLEAN :
         IF ~sent \/ turn[conn[c].sess] >= MaxTurns
         THEN /\ conn' = [conn EXCEPT ![c] =
                    Served(ErrReply("failed to send"), "send", conn[c].sess)]
              /\ UNCHANGED <<turn, capVars>>
         ELSE /\ turn' = [turn EXCEPT ![conn[c].sess] = @ + 1]
              /\ conn' = [conn EXCEPT ![c] =
                    Served(OkReply(conn[c].msgID, 0), "send", conn[c].sess)]
              /\ IF IsRemote(conn[c].sess)
                 THEN LET cap == captureResponseAsync(conn[c].sess, conn[c].msgID,
                                                      activeCaptures, capTasks)
                      IN /\ activeCaptures' = cap.active
                         /\ capTasks' = cap.tasks
                 ELSE UNCHANGED capVars
    /\ UNCHANGED <<paneVars, typingVars, cfgVars, tmuxUp, hooked, messageIDCounter,
                   seedMax, fwd>>

\* Two peers that send, each on its own connection.
NextInterleave ==
    \/ \E c \in Conns : ConnAccept(c)
    \/ \E c \in Conns, sess \in RequestSessions, text \in RequestTexts :
         SendIssue(c, sess, text)
    \/ \E c \in Conns : SendStore(c)

SpecInterleave == Init /\ [][NextInterleave]_vars

\* ------------------------------------------------ the names of new sessions

\* The argument of /new, character by character: a letter, the dot, the
\* underscore, the slash and the colon, up to MaxNameLen characters.
MaxNameLen == 3
NameChars == {"h", ".", "_", "/", ":"}
NewArgs == UNION { [1..n -> NameChars] : n \in 1..MaxNameLen }
\* config.Hosts: one remote host, "h".
ConfiguredHosts == { <<"h">> }
\* Most sessions registered.
MaxNewSessions == 2

\* parseSessionTarget, lines 1876-1891: a path is local; otherwise the text
\* before the first colon, when there is some, is the host.
parseSessionTarget(input) ==
    LET colons == { i \in 1..Len(input) : input[i] = ":" }
        idx == IF colons = {} THEN 0 ELSE CHOOSE i \in colons : \A j \in colons : i <= j
    IN IF input[1] = "/" \/ (Len(input) >= 2 /\ input[1] = "~" /\ input[2] = "/")
       THEN [host |-> <<>>, name |-> input]
       ELSE IF idx > 1
       THEN [host |-> SubSeq(input, 1, idx - 1),
             name |-> SubSeq(input, idx + 1, Len(input))]
       ELSE [host |-> <<>>, name |-> input]

\* fullSessionName, lines 1894-1899.
fullSessionName(host, name) ==
    IF host = <<>> THEN name ELSE host \o <<":">> \o name

\* extractProjectName, lines 1943-1945, which is filepath.Base: the last
\* element of the path without trailing slashes; "." for the empty path and
\* "/" for a path of slashes only.
extractProjectName(path) ==
    LET solid == { i \in 1..Len(path) : path[i] # "/" }
        end == SetMax(solid)
        cuts == { i \in 1..end : path[i] = "/" }
    IN IF path = <<>> THEN <<".">>
       ELSE IF solid = {} THEN <<"/">>
       ELSE SubSeq(path, (IF cuts = {} THEN 0 ELSE SetMax(cuts)) + 1, end)

\* Lines 1949-1952: the name with every dot replaced, behind the prefix.
safeName(name) ==
    <<"claude-">> \o [i \in 1..Len(name) |-> IF name[i] = "." THEN "_" ELSE name[i]]

\* Lines 502-503, 581-582, 699-700, 847-848 and 5023: the terminal an
\* operation on the session of that name works on.
SessionTerminal(sessionName) ==
    safeName(extractProjectName(parseSessionTarget(sessionName).name))

\* The sessions /new has registered: name and host of each.
NewSessions == IF call.op = "new" THEN call.sessions ELSE {}

\* /new <arg> in the bot loop, lines 4955-5023: an unknown host is refused;
\* a name that is registered is reused; otherwise the topic is created and
\* the path resolved, either of which may fail, and the session registered
\* under its full name with its host.
NewCmd(arg) ==
    LET target == parseSessionTarget(arg)
        fullName == fullSessionName(target.host, target.name)
        info == [name |-> fullName, host |-> target.host]
    IN /\ \/ target.host = <<>>
          \/ target.host \in ConfiguredHosts
       /\ \E created \in BOOLEAN :
            call' = [op |-> "new",
                     sessions |->
                        IF \E i \in NewSessions : i.name = fullName THEN NewSessions
                        ELSE IF created /\ Cardinality(NewSessions) < MaxNewSessions
                        THEN NewSessions \cup {info}
                        ELSE NewSessions]
       /\ UNCHANGED <<pane, typingVars, cfgVars, termVars, histVars, conn, capVars, fwd>>

NextNames == \E arg \in NewArgs : NewCmd(arg)

SpecNames == Init /\ [][NextNames]_vars

\* -------------------------------------------- the extractor specification

\* The lines the extractor specification types into the terminal: the prompt
\* glyph alone and followed by typed text, one and the other letter of the
\* sent text, padded text, a response line under its bullet, a spinner line
\* under a bullet, a tool call, a separator, the status bar, a blank line.
ExtractLines ==
    { <<"PROMPT">>,
      <<"PROMPT", "SP", "TXT", "TXT2">>,
      <<"TXT">>,
      <<"TXT2">>,
      <<"SP", "TXT", "TXT", "SP">>,
      <<"BULLET", "SP", "TXT2", "TXT">>,
      <<"BULLET", "SP", "SPIN2", "SP", "THINKING">>,
      <<"BULLET", "SP", "TXT", "LPAREN">>,
      <<"RULE", "RULE">>,
      <<"BYPASS">>,
      <<>> }

\* The texts a caller has sent before it extracts a response.
SentTexts == { << <<"TXT", "TXT2">> >>, << <<"SP", "TXT2">> >> }

\* Which of the three captures of one getLastClaudeResponse call fail.
CaptureErrs ==
    { <<FALSE, FALSE, FALSE>>, <<TRUE, FALSE, FALSE>>, <<TRUE, TRUE, TRUE>> }

\* getLastClaudeResponse is called on the terminal as it stands, by the ask
\* loop or by the background capture, after the text sent was typed.  The ask
\* loop hands its request's text to the extractor (line 652), the background
\* capture the empty string (line 783).  The ask loop answers its caller with
\* whatever the extractor returned (lines 663-668).
ExtractCall(path, remote, errs, sent) ==
    LET output == capturePane(pane, remote)
        captures == [ i \in 1..3 |->
                        [output |-> IF errs[i] THEN <<>> ELSE output,
                         err |-> errs[i]] ]
        response == getLastClaudeResponse(captures,
                        IF path = "ask" THEN sent ELSE <<>>)
    IN
    /\ call = NoCall
    /\ call' = [op |-> "getLastClaudeResponse", path |-> path,
                remote |-> remote, errs |-> errs, sent |-> sent,
                output |-> output, response |-> response,
                reply |-> IF path = "ask"
                          THEN [ok |-> TRUE, error |-> "none", response |-> response]
                          ELSE NoReply]
    /\ UNCHANGED <<pane, cfgVars, termVars, histVars, conn, capVars, fwd, typingVars>>

NextExtract ==
    \/ \E line \in ExtractLines : PaneType(line)
    \/ \E path \in {"ask", "capture"}, remote \in BOOLEAN,
          errs \in CaptureErrs, sent \in SentTexts :
            ExtractCall(path, remote, errs, sent)

SpecExtract == Init /\ [][NextExtract]_vars

\* ------------------------------------------------------ the capture task's life

\* The log has room for k more records beside those of the appends under
\* way: a step that leads to an append is taken only then, so that no
\* goroutine waits on the model's bound.
CaptureRoom(k) ==
    TotalRecords + Cardinality(capTasks) + (IF fwd = NoFwd THEN 0 ELSE 1) + k
        <= MaxRecords

\* Sends, the capture tasks of those to the remote session, and the remote
\* host's forwards of the agent's answers.
NextCaptureLive ==
    \/ \E sess \in Sessions : CaptureRoom(2) /\ SendCmd("c1", sess, "q", FALSE)
    \/ \E t \in capTasks : CapturePoll(t)
    \/ \E t \in capTasks : CaptureExtract(t)
    \/ \E t \in capTasks : CaptureAppend(t)
    \/ \E t \in capTasks : CaptureTimeout(t)
    \/ CaptureRoom(1) /\ FwdRead("srv:api")
    \/ FwdAppend

\* The goroutine of a capture task is scheduled, and the channel of its
\* time.After delivers once the five minutes have passed.
SpecCaptureLive ==
    /\ Init /\ [][NextCaptureLive]_vars
    /\ WF_vars(\E t \in capTasks : CaptureExtract(t))
    /\ WF_vars(\E t \in capTasks : CaptureAppend(t))
    /\ WF_vars(\E t \in capTasks : CaptureTimeout(t))

\* ------------------------------------------------------ the history command

\* handleHistoryCmd, lines 813-832: the session is looked up in the server's
\* configuration and its records read with the request's after, limit and
\* from_filter; a field that is absent is 0 or the empty string.
HistoryCmd(c, sess, afterID, limit, fromFilter) ==
    /\ conn[c].pc = "ready"
    /\ conn' = [conn EXCEPT ![c] =
          IF sess = ""
          THEN Ready(ErrReply("session required"), "history", "")
          ELSE IF ~SessionFound(configs[0], sess)
          THEN Ready(ErrReply("session not found"), "history", sess)
          ELSE Ready(OkReply(0, 0) @@
                     [messages |-> readHistory(history, TopicID(sess), afterID,
                                               limit, fromFilter),
                      req |-> [after |-> afterID, limit |-> limit,
                               from_filter |-> fromFilter]],
                     "history", sess)]
    /\ UNCHANGED <<paneVars, typingVars, cfgVars, termVars, histVars, capVars, fwd>>

\* A client that sends on the first connection, texts of any length, and
\* reads the history on the second, while prompts are typed at the terminal
\* and the agent answers.
NextHistory ==
    \/ \E c \in Conns : ConnAccept(c)
    \/ \E sess \in Sessions, big \in BOOLEAN : SendCmd("c1", sess, "q", big)
    \/ \E s \in Sessions : HookStop(s)
    \/ \E s \in Sessions : HookPrompt(s)
    \/ \E sess \in RequestSessions, afterID \in 0..1, limit \in 0..2,
          fromFilter \in {"", "api", "claude"} :
            HistoryCmd("c2", sess, afterID, limit, fromFilter)
    \/ \E t \in capTasks : CaptureTimeout(t)

SpecHistory == Init /\ [][NextHistory]_vars

\* ------------------------------------------------------ the typing indicator

\* The chat indicator of lines 1480-1554 runs beside the forward of a chat
\* message: the bot loop calls startContinuousTyping before it types the
\* message and stopContinuousTyping when the typing fails.  The indicator
\* shares no state with the rest of the program but the pane it reads, so it
\* has a specification of its own.  Sending the indicator itself (the typing
\* ticker, line 1540) changes no state of the program and is no action.
MaxTypingStarts == 2
MaxTypingPolls == 3

\* cancel() of a context: a context that is done already stays as it is.
CancelTyping(tasks, id) ==
    { IF t.id = id /\ t.ctx = "live" THEN [t EXCEPT !.ctx = "cancelled"] ELSE t :
        t \in tasks }

\* Lines 1480-1516 without the cancel of the context registered before.
startContinuousTypingNoCancel(sessionName, id, cancelers, tasks) ==
    [cancelers |-> [cancelers EXCEPT ![sessionName] = id],
     tasks |-> tasks \cup
        { [id |-> id, sess |-> sessionName, ctx |-> "live", idleCount |-> 0,
           reads |-> <<>>] }]

\* Lines 1480-1516: under the mutex the registered context of the session
\* is cancelled and the new context with its 10 minutes registered, and the
\* goroutine started with no reading yet.
startContinuousTyping(sessionName, id, cancelers, tasks) ==
    [cancelers |-> [cancelers EXCEPT ![sessionName] = id],
     tasks |-> CancelTyping(tasks, cancelers[sessionName]) \cup
        { [id |-> id, sess |-> sessionName, ctx |-> "live", idleCount |-> 0,
           reads |-> <<>>] }]

\* Lines 1547-1554: the context registered for the session, whichever
\* goroutine it belongs to, is cancelled and its entry deleted.
stopContinuousTyping(sessionName, cancelers, tasks) ==
    IF cancelers[sessionName] # 0
    THEN [cancelers |-> [cancelers EXCEPT ![sessionName] = 0],
          tasks |-> CancelTyping(tasks, cancelers[sessionName])]
    ELSE [cancelers |-> cancelers, tasks |-> tasks]

\* Lines 1526-1538 with a counter that every reading but idle resets.
TypingDebounceResetOnOther(idleCount, state) ==
    IF state = "idle" THEN idleCount + 1 ELSE 0

\* Lines 1526-1538, the new idleCount: busy resets it, unknown keeps it.
TypingDebounce(idleCount, state) ==
    IF state = "idle" THEN idleCount + 1
    ELSE IF state = "busy" THEN 0 ELSE idleCount

\* The bot loop starts the indicator of a session, lines 5213 and 5246.
TypingStart(s) ==
    /\ typingSeq < MaxTypingStarts
    /\ LET r == startContinuousTyping(s, typingSeq + 1, typingCancelers, typingTasks)
       IN /\ typingCancelers' = r.cancelers
          /\ typingTasks' = r.tasks
    /\ typingSeq' = typingSeq + 1
    /\ UNCHANGED <<paneVars, cfgVars, termVars, histVars, conn, capVars, fwd,
                   typingExit>>

\* The bot loop stops the indicator of a session, lines 5224 and 5257.
TypingStop(s) ==
    /\ typingCancelers[s] # 0
    /\ LET r == stopContinuousTyping(s, typingCancelers, typingTasks)
       IN /\ typingCancelers' = r.cancelers
          /\ typingTasks' = r.tasks
    /\ UNCHANGED <<paneVars, cfgVars, termVars, histVars, conn, capVars, fwd,
                   typingSeq, typingExit>>

\* The 10 minutes of a context are over, line 1488.
TypingDeadline(t) ==
    /\ t \in typingTasks
    /\ t.ctx = "live"
    /\ typingTasks' = (typingTasks \ {t}) \cup {[t EXCEPT !.ctx = "expired"]}
    /\ UNCHANGED <<paneVars, cfgVars, termVars, histVars, conn, capVars, fwd,
                   typingCancelers, typingSeq, typingExit>>

\* The readings the goroutines that are running have taken, all together.
TypingPolls ==
    Cardinality(UNION { { <<t.id, i>> : i \in 1..Len(t.reads) } : t \in typingTasks })

\* The state ticker of a goroutine, lines 1524-1538.  The select of line 1520
\* may take this case while the context is done as well, so the guard does
\* not look at the context.
TypingPoll(t) ==
    /\ t \in typingTasks
    /\ TypingPolls < MaxTypingPolls
    /\ \E state \in PollStates(IsRemote(t.sess)) :
        LET n == TypingDebounce(t.idleCount, state)
            reads == Append(t.reads, state)
            r == stopContinuousTyping(t.sess, typingCancelers, typingTasks \ {t})
        IN IF n >= 2
           THEN /\ typingCancelers' = r.cancelers
                /\ typingTasks' = r.tasks
                /\ typingExit' = [why |-> "idle", reads |-> reads]
           ELSE /\ typingTasks' = (typingTasks \ {t}) \cup
                        {[t EXCEPT !.idleCount = n, !.reads = reads]}
                /\ UNCHANGED <<typingCancelers, typingExit>>
    /\ UNCHANGED <<paneVars, cfgVars, termVars, histVars, conn, capVars, fwd,
                   typingSeq>>

\* The goroutine finds its context done and returns, lines 1521-1522.
TypingDone(t) ==
    /\ t \in typingTasks
    /\ t.ctx # "live"
    /\ typingTasks' = typingTasks \ {t}
    /\ UNCHANGED <<paneVars, cfgVars, termVars, histVars, conn, capVars, fwd,
                   typingCancelers, typingSeq, typingExit>>

NextTyping ==
    \/ \E s \in Sessions : TypingStart(s)
    \/ \E s \in Sessions : TypingStop(s)
    \/ \E t \in typingTasks : TypingDeadline(t)
    \/ \E t \in typingTasks : TypingPoll(t)
    \/ \E t \in typingTasks : TypingDone(t)

SpecTyping == Init /\ [][NextTyping]_vars

\* ------------------------------------------------------ the status commands

\* parseSessionTarget and extractProjectName, lines 1876-1891 and 1943-1945:
\* the session name without its host prefix.
ProjectName(name) == IF name = "srv:api" THEN "api" ELSE name

\* tmuxSessionName, lines 1949-1952 (no name of the model holds a dot).
tmuxSessionName(name) == "claude-" \o name

\* tmux has-session on a host, lines 1793-1796 and 2232-2239: the sessions
\* that exist there are the ones created under the name of lines 503 and 5023.
HasSession(host, tmuxName) ==
    \E s \in Sessions :
        /\ SessionHost(s) = host
        /\ tmuxSessionName(ProjectName(s)) = tmuxName
        /\ tmuxUp[s]

\* A probe that looks the session up under the name it was created with.
ProbeStatusByProject(s, down) ==
    IF HasSession(SessionHost(s), tmuxSessionName(ProjectName(s)))
    THEN { IF r = "busy" THEN "active" ELSE "idle" : r \in PollStates(IsRemote(s)) }
    ELSE {down}

\* The probe of lines 450-468 and 904-930: has-session under
\* tmuxSessionName(name), then checkClaudeState, where busy reads active and
\* every other reading idle; down is the status of a session that is not
\* found.  A remote host without an address comes to the same as a session
\* that is not found.
ProbeStatus(s, down) ==
    IF HasSession(SessionHost(s), tmuxSessionName(s))
    THEN { IF r = "busy" THEN "active" ELSE "idle" : r \in PollStates(IsRemote(s)) }
    ELSE {down}

\* handleSessionsCmd, lines 442-496: the sessions of the server's
\* configuration that are not marked deleted, each with its status, which
\* starts as idle and is set to active on a busy reading.
SessionsCmd(c) ==
    /\ conn[c].pc = "ready"
    /\ LET listed == { s \in Sessions : ~configs[0][s] } IN
       \E status \in [listed -> {"active", "idle", "stopped"}] :
          /\ \A s \in listed : status[s] \in ProbeStatus(s, "idle")
          /\ conn' = [conn EXCEPT ![c] =
                Served(OkReply(0, 0) @@ [sessions |-> status], "sessions", "")]
    /\ UNCHANGED <<paneVars, typingVars, cfgVars, termVars, histVars, capVars, fwd>>

\* The terminal-multiplexer session of a session ends outside the program:
\* its host restarts or somebody closes it (the case of line 2242).
TmuxExit(s) ==
    /\ tmuxUp[s]
    /\ tmuxUp' = [tmuxUp EXCEPT ![s] = FALSE]
    /\ UNCHANGED <<paneVars, typingVars, cfgVars, turn, hooked, histVars, conn,
                   capVars, fwd>>

\* The session lists a subscribe request may carry.
SubscribeLists == { {}, {"web"}, {"web", "srv:api"}, {"srv:api", "nosuch"} }

\* handleSubscribeCmd, lines 874-893: an empty list stands for the sessions
\* not marked deleted; the subscribed event is written and the loop entered.
\* frames holds what the handler wrote in its last step, probed the statuses
\* its last poll computed, peer whether the other end is still there.
SubscribeCmd(c, names) ==
    /\ conn[c].pc = "ready"
    /\ LET sessions == IF names = {} THEN { s \in Sessions : ~configs[0][s] }
                       ELSE names
       IN conn' = [conn EXCEPT ![c] =
            [pc |-> "subscribed", cmd |-> "subscribe", sess |-> "",
             idleCount |-> 0, last |-> "none", reply |-> NoReply,
             xport |-> FALSE, msgID |-> 0, sessions |-> sessions,
             lastStatus |-> [s \in sessions |-> ""],
             probed |-> [s \in {} |-> ""],
             frames |-> {[event |-> "subscribed", session |-> sessions, status |-> ""]},
             peer |-> "open"]]
    /\ UNCHANGED <<paneVars, typingVars, cfgVars, termVars, histVars, capVars, fwd>>

\* The peer of a subscription goes away; the handler reads nothing from the
\* connection and does not notice.
SubscribePeerClose(c) ==
    /\ conn[c].pc = "subscribed"
    /\ conn[c].peer = "open"
    /\ conn' = [conn EXCEPT ![c].peer = "gone"]
    /\ UNCHANGED <<paneVars, typingVars, cfgVars, termVars, histVars, capVars, fwd>>

\* A poll that writes the status of every session it probed.
SubscribePollEmitsAll(c) ==
    /\ conn[c].pc = "subscribed"
    /\ LET polled == { s \in conn[c].sessions \cap Sessions : ~configs[0][s] } IN
       \E status \in [polled -> {"active", "idle", "stopped"}] :
          /\ \A s \in polled : status[s] \in ProbeStatus(s, "stopped")
          /\ conn' = [conn EXCEPT ![c] =
                IF polled # {} /\ conn[c].peer = "gone"
                THEN Closed
                ELSE [conn[c] EXCEPT
                        !.lastStatus = [s \in conn[c].sessions |->
                            IF s \in polled THEN status[s] ELSE conn[c].lastStatus[s]],
                        !.probed = status,
                        !.frames = { [event |-> "status", session |-> s,
                                      status |-> status[s]] : s \in polled },
                        !.xport = TRUE]]
    /\ UNCHANGED <<paneVars, typingVars, cfgVars, termVars, histVars, capVars, fwd>>

\* case <-ticker.C of lines 896-937: the sessions of the list that are
\* configured and not marked deleted are probed, and a status event is
\* written for those whose status is not the one written last.  When a write
\* fails the handler returns, and handleSocketConnection with it (line 416).
SubscribePoll(c) ==
    /\ conn[c].pc = "subscribed"
    /\ LET polled == { s \in conn[c].sessions \cap Sessions : ~configs[0][s] } IN
       \E status \in [polled -> {"active", "idle", "stopped"}] :
          LET changed == { s \in polled : conn[c].lastStatus[s] # status[s] } IN
          /\ \A s \in polled : status[s] \in ProbeStatus(s, "stopped")
          /\ conn' = [conn EXCEPT ![c] =
                IF changed # {} /\ conn[c].peer = "gone"
                THEN Closed
                ELSE [conn[c] EXCEPT
                        !.lastStatus = [s \in conn[c].sessions |->
                            IF s \in changed THEN status[s] ELSE conn[c].lastStatus[s]],
                        !.probed = status,
                        !.frames = { [event |-> "status", session |-> s,
                                      status |-> status[s]] : s \in changed },
                        !.xport = TRUE]]
    /\ UNCHANGED <<paneVars, typingVars, cfgVars, termVars, histVars, capVars, fwd>>

\* The status commands on two connections, while sessions are killed and
\* started again from the chat and terminal sessions end on their own.
NextStatus ==
    \/ \E c \in Conns : ConnAccept(c)
    \/ \E c \in Conns : SessionsCmd(c)
    \/ \E c \in Conns, sess \in Sessions : ContinueCmd(c, sess)
    \/ \E c \in Conns, names \in SubscribeLists : SubscribeCmd(c, names)
    \/ \E c \in Conns : SubscribePeerClose(c)
    \/ \E c \in Conns : SubscribePoll(c)
    \/ \E s \in Sessions : TmuxExit(s)
    \/ \E s \in Sessions : BotKill(s)
    \/ \E s \in Sessions : BotNew(s)
    \/ \E s \in Sessions : RegisterSession(s)

SpecStatus == Init /\ [][NextStatus]_vars

\* The same with the ticker of every subscription firing again and again
\* (line 890); nothing else is required to happen.
SpecStatusLive ==
    Init /\ [][NextStatus]_vars /\ \A c \in Conns : WF_vars(SubscribePoll(c))

\* ------------------------------------------------------ claims: the pane

\* The lines that are the prompt glyph and nothing else but blanks around it.
GlyphLines(lines) ==
    { i \in 1..Len(lines) : TrimSpace(lines[i]) = <<"PROMPT">> }

\* A line with an interrupt hint, a spinner glyph or one of the two phrases.
ShowsActivity(line) ==
    \E tok \in {"INTERRUPT", "SPIN1", "SPIN2", "RUNNING", "THINKING"} :
        Contains(line, tok)

\* A line that opens with the separator glyph or holds the status-bar phrase.
ChromeLine(line) ==
    \/ (TrimSpace(line) # <<>> /\ TrimSpace(line)[1] = "RULE")
    \/ Contains(line, "BYPASS")

HasToken(content, toks) ==
    \E i \in 1..Len(content) : \E tok \in toks : Contains(content[i], tok)

\* C10, as stated: checkClaudeState returns unknown when the capture holds no
\* prompt-glyph line; otherwise busy exactly when some line after the last
\* prompt line holds an interrupt hint, a spinner glyph or "Running..." /
\* "Thinking...", and idle when none does.
CheckStateAsStated ==
    (call.op = "checkClaudeState" /\ ~call.err) =>
        LET lines == SplitLines(call.content)
            glyphs == GlyphLines(lines)
        IN call.state =
             IF glyphs = {} THEN "unknown"
             ELSE IF \E j \in (SetMax(glyphs) + 1)..Len(lines) : ShowsActivity(lines[j])
             THEN "busy" ELSE "idle"

\* C10, as the code has it: checkClaudeState returns unknown when the capture
\* fails or holds no line that is the prompt glyph alone; otherwise busy exactly
\* when some line after the last such line, separators and the status bar left
\* out, holds an interrupt hint, a spinner glyph or one of the phrases, and
\* idle when none does.
CheckStateSkipsChrome ==
    call.op = "checkClaudeState" =>
        LET lines == SplitLines(call.content)
            glyphs == GlyphLines(lines)
        IN call.state =
             IF call.err \/ glyphs = {} THEN "unknown"
             ELSE IF \E j \in (SetMax(glyphs) + 1)..Len(lines) :
                        ShowsActivity(lines[j]) /\ ~ChromeLine(lines[j])
             THEN "busy" ELSE "idle"

\* C10's case: a capture read as idle although a separator or the status bar
\* after its last prompt line shows activity.
CheckStateIdleOverChrome ==
    /\ call.op = "checkClaudeState" /\ ~call.err /\ call.state = "idle"
    /\ LET lines == SplitLines(call.content) IN
         \E j \in (SetMax(GlyphLines(lines)) + 1)..Len(lines) : ShowsActivity(lines[j])

\* The call of ensureSessionRunning got as far as its look at the pane.
EnsureLooked ==
    /\ call.op = "ensureSessionRunning"
    /\ call.e.remote => call.e.hostOK
    /\ \/ call.e.exists
       \/ call.e.createErr = "none"
       \/ call.e.remote /\ call.e.createErr = "duplicate"

Relaunches(typed) == Len(SelectSeq(typed, LAMBDA x : x = "relaunch"))

\* C9, as stated: a capture without a prompt glyph is read as unknown, and
\* ensureSessionRunning types no relaunch command into a pane that lacks a
\* prompt glyph.
NoGlyphNeverRelaunched ==
    /\ (call.op = "checkClaudeState" /\ ~call.err
        /\ ~HasToken(call.content, {"PROMPT"})) => call.state = "unknown"
    /\ (EnsureLooked /\ ~call.e.err1 /\ ~HasToken(call.e.content1, {"PROMPT"}))
          => (call.r.restarts = 0 /\ Relaunches(call.r.typed) = 0)

\* C9, as the code has it: a capture without a prompt glyph is read as
\* unknown, and ensureSessionRunning types no relaunch command into a pane
\* that lacks a prompt glyph but shows another indicator of the agent's UI.
NoGlyphWithIndicatorNotRelaunched ==
    /\ (call.op = "checkClaudeState" /\ ~call.err
        /\ ~HasToken(call.content, {"PROMPT"})) => call.state = "unknown"
    /\ (EnsureLooked /\ ~call.e.err1 /\ ~HasToken(call.e.content1, {"PROMPT"})
        /\ HasToken(call.e.content1, claudeIndicators \ {"PROMPT"}))
          => (call.r.restarts = 0 /\ Relaunches(call.r.typed) = 0)

\* C9's case: ensureSessionRunning returned without a restart on an existing
\* session whose pane has no prompt glyph and shows the agent at work.
EnsureLeftBusyPaneAlone ==
    /\ EnsureLooked /\ call.e.exists /\ ~call.e.err1
    /\ ~HasToken(call.e.content1, {"PROMPT"})
    /\ HasToken(call.e.content1, {"INTERRUPT", "SPIN2"})
    /\ call.r.restarts = 0 /\ call.r.err = ""

\* C5: ensureSessionRunning on a pane that shows no indicator of the agent's
\* UI calls the restart once and types the relaunch command once; when the
\* pane after the restart still shows none, it returns "failed to restart
\* Claude" with no second restart.
OneRestartThenFatal ==
    (EnsureLooked
     /\ (call.e.err1 \/ ~HasToken(call.e.content1, claudeIndicators))) =>
        /\ call.r.restarts = 1
        /\ Relaunches(call.r.typed) = (IF call.e.sendOk THEN 1 ELSE 0)
        /\ (~call.e.sendOk \/ call.e.err2
            \/ ~HasToken(call.e.content2, claudeIndicators))
              => call.r.err = "failed to restart Claude"
        /\ (call.e.sendOk /\ ~call.e.err2
            /\ HasToken(call.e.content2, claudeIndicators)) => call.r.err = ""

\* C5's case: the restart was typed into a bare pane, the pane stayed bare and
\* the call returned the fatal error.
RestartFailedOnce ==
    /\ EnsureLooked /\ call.e.exists /\ ~call.e.err1
    /\ call.e.content1 # <<>> /\ ~HasToken(call.e.content1, claudeIndicators)
    /\ call.e.sendOk /\ ~call.e.err2
    /\ ~HasToken(call.e.content2, claudeIndicators)
    /\ call.r.restarts = 1 /\ call.r.typed = <<"relaunch">>
    /\ call.r.err = "failed to restart Claude"

\* ------------------------------------- claims: the wait loop and the capture

\* C1: the wait loop of the blocking ask and the loop of the capture task
\* declare the agent settled only at a poll that reads idle right after a poll
\* that read idle, and a busy reading leaves the idle counter at zero.
SettledOnlyOnTwoIdle ==
    [][ /\ \A c \in Conns :
             /\ (conn[c].pc = "wait" /\ conn'[c].pc = "settled")
                   => (conn[c].last = "idle" /\ conn'[c].last = "idle")
             /\ (conn'[c].pc = "wait" /\ conn'[c].last = "busy")
                   => conn'[c].idleCount = 0
        /\ \A t \in capTasks : \A u \in capTasks' :
             (t.tid = u.tid /\ t.pc = "poll") =>
                /\ u.pc = "settled" => (t.last = "idle" /\ u.last = "idle")
                /\ (u.pc = "poll" /\ u.last = "busy") => u.idleCount = 0
      ]_vars

\* C1's case: an ask and a capture task have both just declared the agent
\* settled.
BothLoopsSettled ==
    /\ \E c \in Conns : conn[c].pc = "settled" /\ conn[c].idleCount = 2
    /\ \E t \in capTasks : t.pc = "settled" /\ t.idleCount = 2

\* C2: at most one capture task per session is running at any time.
OneCapturePerSession ==
    \A t \in capTasks : \A u \in capTasks : t.sess = u.sess => t = u

\* C2's case: a send for the session was answered after the capture task that
\* is still running had started.
SendWhileCaptureRuns ==
    \E t \in capTasks : \E c \in Conns :
        /\ conn[c].pc = "ready" /\ conn[c].cmd = "send" /\ conn[c].reply.ok
        /\ conn[c].sess = t.sess /\ conn[c].reply.id > t.tid

\* C3, as stated: when the capture task appends an assistant record, the last
\* assistant record of the topic does not already hold that text, so that the
\* text is persisted once whichever way the capture's read and append
\* interleave with the synchronous path's.
CaptureAppendsNoDuplicate ==
    [][ \A t \in capTasks :
          (t.pc = "append" /\ t \notin capTasks')
             => ~LastHasText(history, t.topicID, "claude", t.response) ]_vars

\* C4: an ask on a session whose pane never shows a prompt glyph ends with the
\* reply "timeout waiting for response"; no wait loop polls for ever.
AskEndsInTimeout ==
    \A c \in Conns :
        (conn[c].pc = "wait") ~>
            (/\ conn[c].pc = "ready" /\ ~conn[c].reply.ok
             /\ conn[c].reply.error = "timeout waiting for response")

\* C4's case: an ask on the remote session was answered with the timeout.
AskTimedOut ==
    \E c \in Conns :
        /\ conn[c].pc = "ready" /\ conn[c].cmd = "ask" /\ conn[c].sess = "srv:api"
        /\ conn[c].reply.error = "timeout waiting for response"
        /\ turn["srv:api"] > 0

\* ------------------------------------------------ claims: ids and config

\* C6, as stated: after a restart that seeds the counter from the history, the
\* next id nextMessageID issues is greater than every id that was on disk at
\* the restart.
SeededAboveHistory == nextMessageID(messageIDCounter) > seedMax

\* C7, as stated: no two records of the persisted history carry the same id.
HistoryIdsUnique ==
    \A t \in Topics, u \in Topics :
      \A i \in 1..Len(history[t]), j \in 1..Len(history[u]) :
        (history[t][i].id = history[u][j].id) => (t = u /\ i = j)

\* C8, as stated: an ask or send on the control socket for a session that the
\* saved configuration marks deleted is answered "session not found".
KilledSessionNotFound ==
    [][ \A c \in Conns :
          (/\ conn[c].pc = "ready" /\ conn'[c] # conn[c]
           /\ conn'[c].sess \in Sessions /\ diskConfig[conn'[c].sess])
             => (/\ conn'[c].pc = "ready"
                 /\ conn'[c].reply.error = "session not found") ]_vars

\* ------------------------------------------------- claims: the extractor

\* s opens the text t.
HasPrefixText(t, s) == Len(s) <= Len(t) /\ SubSeq(t, 1, Len(s)) = s

\* The one candidate of a call whose first capture worked: every capture of
\* the call shows the same pane.
Candidate == ResponseText(call.output)

\* C11, as stated: whenever text was sent and the only candidate response of
\* an extraction is that text, opens it or ends it, the extractor returns the
\* empty string, in the ask loop and in the background capture alike.
EchoNeverReturned ==
    (call.op = "getLastClaudeResponse" /\ ~call.errs[3]) =>
        LET sentNorm == JoinLines(TrimText(call.sent))
            c == JoinLines(Candidate)
        IN (c # <<>> /\ (c = sentNorm \/ HasPrefixText(sentNorm, c)
                                      \/ HasSuffix(sentNorm, c)))
              => call.response = <<>>


\* C12, as stated: every line the extractor emits as response text, its
\* bullet stripped, is classified as no artifact by isClaudeUIArtifact, so the
\* artifact filter removes nothing from the extractor's own output.
EmittedLinesAreNoArtifacts ==
    call.op = "getLastClaudeResponse" =>
        \A i \in 1..Len(call.response) : ~isClaudeUIArtifact(call.response[i])

\* ------------------------------------------- claims: the control socket

\* C13: a line of malformed JSON and a request with an unknown cmd are each
\* answered with an object that has "ok", false, and an "error" string; the
\* connection stays open, and its handler reads and serves the next line.
BadRequestAnswered ==
    \A c \in Conns :
        conn[c].cmd \in {"invalid", "unknown"} =>
            /\ {"ok", "error"} \subseteq Encode(conn[c].reply)
            /\ ~conn[c].reply.ok
            /\ conn[c].reply.error \in {"invalid JSON", "unknown command"}
            /\ conn[c].pc = "ready"
            /\ ENABLED PingCmd(c)

\* C13's case: both kinds of bad line were answered, one on each connection.
BadLinesAnswered ==
    /\ conn["c1"].cmd = "invalid" /\ conn["c1"].reply.error = "invalid JSON"
    /\ conn["c2"].cmd = "unknown" /\ conn["c2"].reply.error = "unknown command"

\* The request names no session or no text, a session the server's
\* configuration does not hold, or one it holds marked deleted.
Rejectable(sess, text) ==
    sess = "" \/ text = "" \/ sess \notin Sessions \/ configs[0][sess]

TimesOut(c) ==
    /\ conn[c].pc = "wait" /\ conn'[c].pc = "ready"
    /\ conn'[c].reply.error = "timeout waiting for response"

\* The history of the session holds the api record with this id.
HoldsApiRecord(hist, sess, id) ==
    \E i \in 1..Len(hist[TopicID(sess)]) :
        /\ hist[TopicID(sess)][i].id = id
        /\ hist[TopicID(sess)][i].from = "api"

\* C15: when an ask ends with the timeout error nothing is rolled back: the
\* text stays injected, the api record appended for it stays in the history,
\* no record is removed or altered, and no assistant record is appended.
TimeoutRollsNothingBack ==
    [][ \A c \in Conns :
          TimesOut(c) =>
            /\ history' = history
            /\ turn' = turn
            /\ HoldsApiRecord(history', conn[c].sess, conn[c].msgID) ]_vars

\* C15's case: an ask was answered with the timeout error, its text is in the
\* terminal and its record in the history.
TimedOutAskLeftItsRecord ==
    \E c \in Conns :
        /\ conn[c].reply.error = "timeout waiting for response"
        /\ turn[conn[c].sess] > 0
        /\ \E id \in 1..messageIDCounter : HoldsApiRecord(history, conn[c].sess, id)

\* C16: a send is answered ok:true with the id of the record stored for the
\* sent text as soon as the text is injected: the handler takes no reading of
\* the agent's state and is back at its read; a capture task is started only
\* for a remote session, never for a local one.
SendRepliesAtOnce ==
    [][ \A c \in Conns :
          (/\ conn[c].pc = "ready" /\ conn'[c] # conn[c]
           /\ conn'[c].cmd = "send" /\ conn'[c].reply.ok)
             => LET s == conn'[c].sess
                    file == history'[TopicID(s)]
                IN /\ conn'[c].pc = "ready" /\ conn'[c].last = "none"
                   /\ turn'[s] = turn[s] + 1
                   /\ Len(file) = Len(history[TopicID(s)]) + 1
                   /\ file[Len(file)].from = "api"
                   /\ file[Len(file)].id = conn'[c].reply.id
                   /\ "message_id" \in Encode(conn'[c].reply)
                   /\ IF SessionHost(s) = ""
                      THEN UNCHANGED capVars
                      ELSE /\ s \in activeCaptures'
                           /\ \A t \in capTasks' \ capTasks : t.sess = s ]_vars

\* C16's case: a send to the local session was answered while the capture a
\* send to the remote session started is running, and no other capture.
LocalSendStartedNoCapture ==
    \E c \in Conns :
        /\ conn[c].cmd = "send" /\ conn[c].reply.ok /\ conn[c].sess = "web"
        /\ activeCaptures = {"srv:api"}
        /\ \A t \in capTasks : t.sess = "srv:api"

\* The step of connection c is the successful end of its ask.
AskSucceeds(c) ==
    /\ conn[c].pc = "settled" /\ conn'[c].pc = "ready" /\ conn'[c].reply.ok

\* C17: a successful ask has stored two records for the session, the api
\* record of the sent text and then the assistant record of the response; the
\* message_id it returns is the id of the assistant record and greater than
\* the id of the api record, the response it returns is that record's text.
AskStoresRequestThenResponse ==
    [][ \A c \in Conns :
          AskSucceeds(c) =>
            LET file == history'[TopicID(conn[c].sess)]
                n == Len(file)
            IN /\ n = Len(history[TopicID(conn[c].sess)]) + 1
               /\ file[n].from = "claude"
               /\ file[n].id = conn'[c].reply.id
               /\ file[n].text = ToString(conn'[c].reply.response)
               /\ \E i \in 1..(n - 1) :
                     /\ file[i].from = "api" /\ file[i].id = conn[c].msgID
                     /\ file[i].id < file[n].id ]_vars

\* C17's case: an ask returned the agent's answer, stored after its request
\* and after a record of another sender.
AskReturnedStoredAnswer ==
    \E c \in Conns :
        LET file == history[TopicID(conn[c].sess)] IN
        /\ conn[c].cmd = "ask" /\ conn[c].reply.ok /\ conn[c].reply.response # 0
        /\ Len(file) = 3
        /\ file[1].from = "api" /\ file[3].from = "claude"
        /\ file[3].id = conn[c].reply.id

\* ------------------------------------------------------ claims: typing

\* C18: a session never has two typing goroutines whose contexts are both
\* live: starting the indicator cancels the context registered before, so at
\* most one goroutine of a session goes on sending the indicator.
OneTypingTaskPerSession ==
    \A s \in Sessions :
        Cardinality({ t \in typingTasks : t.sess = s /\ t.ctx = "live" }) <= 1

\* C18, its case: the indicator of a session was started while the one
\* started before had not returned; the older one is cancelled.
TypingRestartedWhileRunning ==
    \E t1, t2 \in typingTasks :
        /\ t1.sess = t2.sess
        /\ t1.id < t2.id
        /\ t1.ctx = "cancelled"
        /\ t2.ctx = "live"

\* C19 as stated: a typing goroutine stops for idleness at the first poll
\* whose reading and whose preceding reading are both idle, and at no other.
TypingStopsOnTwoConsecutiveIdle ==
    LET Stops(reads, k) ==
            k >= 2 /\ reads[k] = "idle" /\ reads[k - 1] = "idle"
    IN /\ \A t \in typingTasks :
            \A k \in 1..Len(t.reads) : ~Stops(t.reads, k)
       /\ typingExit.why = "idle" =>
            /\ Stops(typingExit.reads, Len(typingExit.reads))
            /\ \A k \in 1..(Len(typingExit.reads) - 1) : ~Stops(typingExit.reads, k)

\* C19, amended: a typing goroutine stops for idleness at the first poll that
\* reads idle after an earlier poll read idle with no busy reading between
\* the two, and at no other; unknown readings between them do not count.
TypingStopsOnTwoIdleWithoutBusy ==
    LET Stops(reads, k) ==
            /\ reads[k] = "idle"
            /\ \E j \in 1..(k - 1) :
                /\ reads[j] = "idle"
                /\ \A i \in (j + 1)..(k - 1) : reads[i] # "busy"
    IN /\ \A t \in typingTasks :
            \A k \in 1..Len(t.reads) : ~Stops(t.reads, k)
       /\ typingExit.why = "idle" =>
            /\ Stops(typingExit.reads, Len(typingExit.reads))
            /\ \A k \in 1..(Len(typingExit.reads) - 1) : ~Stops(typingExit.reads, k)

\* C19, its case: a goroutine stopped on idle, unknown, idle.
TypingStoppedAcrossUnknown ==
    /\ typingExit.why = "idle"
    /\ typingExit.reads = <<"idle", "unknown", "idle">>

\* ------------------------------------------------------ claims: transport

\* C20: an ask during which a capture of the pane failed is answered ok:false
\* with an error, never ok:true.
CaptureFailureFailsAsk ==
    (/\ call.op = "getLastClaudeResponse"
     /\ call.path = "ask"
     /\ \E i \in 1..3 : call.errs[i])
    => (~call.reply.ok /\ call.reply.error # "none")

\* ------------------------------------------------------ claims: status

\* C25: the sessions command lists the sessions not marked deleted, each with
\* its live status: stopped when its terminal session is not running, and
\* otherwise one of the statuses a probe of that terminal session gives.
SessionsListsLiveStatus ==
    [][\A c \in Conns :
        (/\ conn'[c] # conn[c]
         /\ conn'[c].pc = "ready"
         /\ conn'[c].cmd = "sessions") =>
            /\ DOMAIN conn'[c].reply.sessions = { s \in Sessions : ~configs[0][s] }
            /\ \A s \in DOMAIN conn'[c].reply.sessions :
                 conn'[c].reply.sessions[s] \in ProbeStatusByProject(s, "stopped")]_vars

\* C24: a subscription owns its connection.  The first frame written is the
\* subscribed event; a connection that is subscribed stays so until it is
\* closed and serves no command; and at each poll a status event is written
\* for a session exactly if the status the poll probed for it is not the one
\* written last for it on this connection, which is then the one remembered.
SubscriptionOwnsConnection ==
    [][\A c \in Conns :
        LET old == conn[c]
            new == conn'[c]
            Emitted(s) == { f \in new.frames : f.event = "status" /\ f.session = s }
        IN /\ (old.pc # "subscribed" /\ new.pc = "subscribed") =>
                \A f \in new.frames : f.event = "subscribed"
           /\ old.pc = "subscribed" => new.pc \in {"subscribed", "closed"}
           /\ (old.pc = "subscribed" /\ new.pc = "subscribed" /\ new # old
                 /\ new.peer = old.peer) =>
                /\ \A f \in new.frames : f.event = "status" /\ f.session \in DOMAIN new.probed
                /\ \A s \in DOMAIN new.probed :
                    /\ Emitted(s) # {} <=> new.probed[s] # old.lastStatus[s]
                    /\ \A f \in Emitted(s) : f.status = new.probed[s]
                /\ \A s \in new.sessions :
                    new.lastStatus[s] =
                        IF s \in DOMAIN new.probed /\ Emitted(s) # {}
                        THEN new.probed[s] ELSE old.lastStatus[s]]_vars

\* C24, its case: a poll probed two sessions and wrote an event for one of
\* them only, the other's status being the one written before.
PollWroteChangedStatusOnly ==
    \E c \in Conns :
        /\ conn[c].pc = "subscribed"
        /\ \E s, t \in DOMAIN conn[c].probed :
            /\ \E f \in conn[c].frames : f.session = s
            /\ \A f \in conn[c].frames : f.session # t

\* ------------------------------------------------------ claims: ceilings

\* C21: every wait loop ends: an ask leaves its wait loop, a capture task
\* and a typing task return, and a subscription's polling loop ends, whatever
\* the state that is observed and whatever the peer does.
EveryWaitLoopEnds ==
    /\ \A c \in Conns : (conn[c].pc = "wait") ~> (conn[c].pc # "wait")
    /\ \A s \in Sessions : (s \in activeCaptures) ~> (s \notin activeCaptures)
    /\ \A s \in Sessions : (typingCancelers[s] # 0) ~> (\A t \in typingTasks : t.sess # s)
    /\ \A c \in Conns : (conn[c].pc = "subscribed") ~> (conn[c].pc # "subscribed")

\* ------------------------------------------------------ claims: sessions

\* C22: "/new" with the name of a session that "/kill" marked deleted restores
\* it: afterwards its record is not marked deleted, the sessions command
\* lists it, and ask and send find it.
NewRestoresKilledSession ==
    [][\A name \in Sessions :
        (diskConfig[name] /\ BotNew(name)) =>
            /\ ~diskConfig'[name]
            /\ ~configs'[botConfig'][name]
            /\ SessionFound(configs'[0], name)]_vars

\* C23: killing a session changes nothing in the configuration file but the
\* deleted marker of that session, and no step takes a session record out of
\* a configuration object or out of the file.
KillOnlyMarksDeleted ==
    [][/\ \A o \in DOMAIN configs : DOMAIN configs'[o] = Sessions
       /\ DOMAIN diskConfig' = Sessions
       /\ \A name \in Sessions :
            BotKill(name) =>
                \A s \in Sessions \ {name} : diskConfig'[s] = diskConfig[s]]_vars

\* C26: a continue request for a configured session is served: the terminal
\* transport is used to kill and recreate the session, and the reply is
\* ok:true, or ok:false with an error saying that the agent did not start.
ContinueRestartsSession ==
    \A c \in Conns :
        (conn[c].pc = "ready" /\ conn[c].cmd = "continue"
            /\ SessionFound(configs[0], conn[c].sess)) =>
            /\ conn[c].xport
            /\ conn[c].reply.ok \/ conn[c].reply.error # "unknown command"

\* ------------------------------------------------------ claims: history

\* C27: history returns exactly the records of the session's log whose id is
\* greater than after and whose sender is from_filter when one is given, in
\* the order of the log, and the newest limit of them when there are more,
\* where a limit that is absent or not positive stands for 100.
HistoryReturnsMatchingRecords ==
    [][\A c \in Conns :
        (/\ conn'[c] # conn[c]
         /\ conn'[c].cmd = "history"
         /\ conn'[c].reply.ok) =>
            LET req == conn'[c].reply.req
                lim == IF req.limit <= 0 THEN 100 ELSE req.limit
                Matches(m) == /\ m.id > req.after
                              /\ req.from_filter = "" \/ m.from = req.from_filter
                all == SelectSeq(history[TopicID(conn'[c].sess)], Matches)
            IN conn'[c].reply.messages =
                 IF Len(all) > lim
                 THEN SubSeq(all, Len(all) - lim + 1, Len(all))
                 ELSE all]_vars

\* ------------------------------------------------------ claims: injection

\* C28: an ask or send whose injection into the terminal fails replies
\* "failed to send" with the api record of the request already appended to
\* the session's log and left there, the ask not waiting and no capture task
\* started.
FailedInjectionKeepsRecord ==
    [][\A c \in Conns :
        (/\ conn'[c] # conn[c]
         /\ conn'[c].cmd \in {"ask", "send"}
         /\ conn'[c].reply.error = "failed to send") =>
            LET log == history[TopicID(conn'[c].sess)]
                after == history'[TopicID(conn'[c].sess)]
            IN /\ Len(after) = Len(log) + 1
               /\ SubSeq(after, 1, Len(log)) = log
               /\ after[Len(after)].from = "api"
               /\ after[Len(after)].id = messageIDCounter'
               /\ ~conn'[c].reply.ok
               /\ conn'[c].pc = "ready"
               /\ capTasks' = capTasks
               /\ activeCaptures' = activeCaptures
               /\ turn' = turn]_vars

\* A send to the remote session has failed to inject after an earlier request
\* did: the log holds both records, nothing was typed and no capture runs.
InjectionFailedAfterAppend ==
    /\ conn["c1"].cmd = "send" /\ conn["c1"].reply.error = "failed to send"
    /\ conn["c1"].sess = "srv:api"
    /\ Len(history[TopicID("srv:api")]) >= 2
    /\ turn["srv:api"] = 0
    /\ capTasks = {}

\* ------------------------------------------------------ claims: lifecycle check

\* C30: ensureSessionRunning takes the settle delay exactly in a call that
\* created the terminal-multiplexer session; when the session existed, or the
\* creation was rejected as a duplicate, it creates nothing, takes no delay
\* and goes on to the isRunning check.
SettleDelayOnlyAfterCreation ==
    (call.op = "ensureSessionRunning" /\ (call.e.remote => call.e.hostOK)) =>
        /\ call.r.slept <=> (~call.e.exists /\ call.e.createErr = "none")
        /\ (call.e.exists \/ call.e.createErr = "duplicate") =>
              /\ ~call.r.created
              /\ ~call.r.slept
              /\ call.r.err # "failed to start session"
              /\ call.r.restarts = 0 <=> isClaudeRunning(call.e.content1, call.e.err1)

\* The errors ensureSessionRunning returns, lines 513, 521 and 531.
EnsureErrors == {"host not configured", "failed to start session", "failed to restart Claude"}

\* C29: an ask or send whose lifecycle check fails replies ok:false with the
\* check's error and nothing else: no message id, no record, no injection, no
\* capture task; the failure is not remembered, so that the next request for
\* the session makes the check again and can be served.
EnsureFailureFailsRequestOnly ==
    /\ [][\A c \in Conns :
           (/\ conn'[c] # conn[c]
            /\ conn[c].pc = "ready"
            /\ conn'[c].cmd \in {"ask", "send"}
            /\ conn'[c].reply.error \in EnsureErrors) =>
               /\ ~conn'[c].reply.ok
               /\ conn'[c].reply.id = 0
               /\ conn'[c].pc = "ready"
               /\ UNCHANGED <<histVars, turn, capVars>>]_vars
    /\ [](\A c \in Conns :
           (/\ conn[c].pc = "ready"
            /\ conn[c].cmd \in {"ask", "send"}
            /\ conn[c].reply.error \in EnsureErrors
            /\ SessionFound(configs[0], conn[c].sess)
            /\ TotalRecords < MaxRecords
            /\ turn[conn[c].sess] < MaxTurns) =>
               ENABLED (AskCmd(c, conn[c].sess, "q", FALSE) /\ conn'[c].pc = "wait"))

\* The session's record was stored by a request that followed one the
\* lifecycle check had failed: an ask for the local session failed on the
\* restart while the log was empty and nothing had been typed.
EnsureFailedBeforeAnything ==
    /\ conn["c1"].cmd = "ask" /\ conn["c1"].sess = "web"
    /\ conn["c1"].reply.error = "failed to restart Claude"
    /\ history[TopicID("web")] = <<>>
    /\ turn["web"] = 0
    /\ messageIDCounter = 0

\* ------------------------------------------------------ claims: the capture task

\* C31: a session is in the capture guard exactly while a capture task of it
\* runs, whichever way the task ends, and the guard of a session is always
\* released in the end, after which a send starts a new task.
CaptureGuardReleased ==
    /\ [](activeCaptures = { t.sess : t \in capTasks })
    /\ \A s \in Sessions : (s \in activeCaptures) ~> (s \notin activeCaptures)

\* A send started the second capture task of the remote session: the first,
\* started by the send before it, has ended and released the guard.
SecondCaptureStarted ==
    /\ turn["srv:api"] = 2
    /\ \E t \in capTasks : t.sess = "srv:api" /\ t.tid = 2
    /\ conn["c1"].cmd = "send" /\ conn["c1"].reply.ok /\ conn["c1"].reply.id = 2

\* C32: a step of a capture task writes to no connection; it appends at most
\* one record, an assistant record with a text that is not empty, and the
\* task ends with it; the task that ends by timeout appends nothing.
CaptureAppendsOnceOrNothing ==
    [][\A t \in capTasks :
        t \notin capTasks' =>
            LET log == history[t.topicID]
                after == history'[t.topicID]
                ended == \A u \in capTasks' : u.tid # t.tid
            IN /\ conn' = conn
               /\ \/ history' = history
                  \/ /\ history' = [history EXCEPT ![t.topicID] = after]
                     /\ Len(after) = Len(log) + 1
                     /\ SubSeq(after, 1, Len(log)) = log
                     /\ after[Len(after)].from = "claude"
                     /\ after[Len(after)].text # ToString(0)
                     /\ t.pc = "append" /\ ended
               /\ (t.pc = "poll" /\ ended) => history' = history]_vars

\* The capture task of a send has stored the agent's answer after the send's
\* record and has ended.
CaptureStoredAnswer ==
    /\ conn["c1"].cmd = "send" /\ conn["c1"].reply.ok /\ conn["c1"].reply.id = 1
    /\ Len(history[TopicID("srv:api")]) = 2
    /\ history[TopicID("srv:api")][2].from = "claude"
    /\ history[TopicID("srv:api")][2].id = 2
    /\ capTasks = {}

\* ------------------------------------------------------ claims: the chat forward

\* C33: a chat text for a session whose terminal session exists and whose
\* pane shows no agent gets exactly one restart and the restart notice; when
\* the restart fails, the failure notice follows and the text is not stored,
\* not injected, and no typing or capture task is started.
ForwardRestartsOnce ==
    (/\ call.op = "forward"
     /\ call.e.remote => call.e.hostOK
     /\ call.e.exists
     /\ call.e.err1 \/ ~HasToken(call.e.content1, claudeIndicators)) =>
        /\ call.r.restarts = 1
        /\ Relaunches(call.r.typed) = (IF call.e.sendOk THEN 1 ELSE 0)
        /\ call.r.notices[1] = "restarting"
        /\ (~call.e.sendOk \/ call.e.err2
            \/ ~HasToken(call.e.content2, claudeIndicators)) =>
              /\ call.r.notices = <<"restarting", "failed to restart">>
              /\ ~call.r.stored /\ ~call.r.injected
              /\ ~call.r.typing /\ ~call.r.capture

\* The relaunch was typed for a chat text, the pane still showed no agent, and
\* the text went nowhere.
ForwardGaveUpAfterRestart ==
    /\ call.op = "forward" /\ call.e.exists /\ ~call.e.err1
    /\ call.e.content1 # <<>>
    /\ call.e.sendOk /\ ~call.e.err2
    /\ ~HasToken(call.e.content2, claudeIndicators)
    /\ call.r.typed = <<"relaunch">>
    /\ call.r.notices = <<"restarting", "failed to restart">>
    /\ ~call.r.stored

\* C36: neither ensureSessionRunning nor the chat forward types the relaunch
\* command while the session's pane shows the agent running, a failed
\* capture included.
RelaunchOnlyWhenNotRunning ==
    (/\ call.op \in {"ensureSessionRunning", "forward"}
     /\ HasToken(pane, claudeIndicators)) =>
        Relaunches(call.r.typed) = 0

\* ------------------------------------------------------ claims: line selection

\* C34: what the extractor returns is made of lines that are not blank and
\* lie between the last prompt-glyph line of the capture and the nearest
\* prompt-glyph line above it, in the capture's order; a capture without a
\* prompt-glyph line gives the empty text, and so do three failed captures;
\* otherwise the result is that of the first capture that succeeded.
ExtractorTakesLinesBetweenPrompts ==
    call.op = "getLastClaudeResponse" =>
        LET lines == SplitLines(call.output)
            glyphs == { i \in 1..Len(lines) : HasToken(<<lines[i]>>, {"PROMPT"}) }
            last == SetMax(glyphs)
            above == { i \in glyphs : i < last }
            region == ((IF above = {} THEN 0 ELSE SetMax(above)) + 1)..(last - 1)
            n == Len(call.response)
        IN /\ glyphs = {} => call.response = <<>>
           /\ (\A i \in 1..3 : call.errs[i]) => call.response = <<>>
           /\ \A k \in 1..n : TrimSpace(call.response[k]) # <<>>
           /\ n > 0 =>
                \E f \in [1..n -> region] :
                    /\ \A j \in 1..n : \A k \in 1..n : j < k => f[j] < f[k]
                    /\ \A k \in 1..n :
                         /\ TrimSpace(lines[f[k]]) # <<>>
                         /\ TrimSpace(call.response[k])
                              = TrimSpace(StripBullet(lines[f[k]]))

\* The extractor returned the one line between two prompt lines after its
\* first capture had failed.
ExtractedBetweenPrompts ==
    /\ call.op = "getLastClaudeResponse"
    /\ call.errs = <<TRUE, FALSE, FALSE>>
    /\ Len(call.output) = 3
    /\ HasToken(<<call.output[1]>>, {"PROMPT"})
    /\ HasToken(<<call.output[3]>>, {"PROMPT"})
    /\ Len(call.response) = 1

\* ------------------------------------------------------ claims: superseded typing

\* C35: when a typing goroutine that a newer one of the same session has
\* superseded returns, on its done context or on its own idle confirmation,
\* the newer goroutine's context is still the one registered for the session
\* and is still live.
SupersededTypingLeavesNewer ==
    [][\A t \in typingTasks :
         LET newer == typingCancelers[t.sess] IN
         (/\ newer > t.id
          /\ \A u \in typingTasks' : u.id # t.id)
         => /\ typingCancelers'[t.sess] = newer
            /\ \A u \in typingTasks : u.id = newer => u \in typingTasks']_vars

\* ------------------------------------------------------ claims: one response

\* C37: every request line but subscribe is answered by one response on its
\* connection, whichever way its handler returns, and in the order of the
\* requests: a handler that returns to reading has written the response of
\* the line it served, a handler that waits has written nothing yet and
\* takes no other line until it has answered, and the response is the one of
\* the request being served.
OneResponsePerRequest ==
    [][\A c \in Conns :
         conn'[c] = conn[c] \/
         IF conn[c].pc = "ready"
         THEN \/ /\ conn'[c].pc = "ready"
                 /\ conn'[c].cmd \notin {"none", "subscribe"}
                 /\ conn'[c].reply # NoReply
              \/ /\ conn'[c].pc = "wait"
                 /\ conn'[c].cmd = "ask"
                 /\ conn'[c].reply = NoReply
              \/ conn'[c] = Closed
         ELSE IF conn[c].pc = "closed"
         THEN conn'[c] = Ready(NoReply, "none", "")
         ELSE /\ conn[c].pc \in {"wait", "settled"}
              /\ conn'[c].cmd = conn[c].cmd
              /\ conn'[c].sess = conn[c].sess
              /\ IF conn'[c].pc = "ready"
                 THEN conn'[c].reply # NoReply
                 ELSE conn'[c].pc \in {"wait", "settled"} /\ conn'[c].reply = NoReply]_vars

\* An ask that timed out and a send that succeeded have both been answered,
\* each on its own connection.
TimeoutAndSuccessAnswered ==
    /\ conn["c1"].pc = "ready" /\ conn["c1"].cmd = "ask"
    /\ conn["c1"].reply = ErrReply("timeout waiting for response")
    /\ conn["c2"].pc = "ready" /\ conn["c2"].cmd = "send"
    /\ conn["c2"].reply.ok

\* ------------------------------------------------------ claims: terminal names

\* C38: every operation resolves the same terminal name for a session: the
\* name under which sessions and subscribe look a session's terminal up is
\* the name under which ask, send, screenshot and the chat forward create
\* it and type into it, so the probe finds the terminal exactly when the
\* session's terminal is there.
ProbeNameIsCreatedName ==
    \A s \in Sessions :
        /\ tmuxSessionName(s) = tmuxSessionName(ProjectName(s))
        /\ HasSession(SessionHost(s), tmuxSessionName(s)) = tmuxUp[s]

\* ------------------------------------------------------ claims: order in the log

\* C39: with handlers running side by side in one process, a record is
\* never appended to a conversation's log behind a record of that
\* conversation that carries a larger id.
AppendsInIdOrder ==
    [][\A t \in Topics :
         Len(history'[t]) > Len(history[t]) =>
            \A i \in 1..Len(history[t]) :
                history[t][i].id < history'[t][Len(history'[t])].id]_vars

\* ------------------------------------------------------ claims: one terminal each

\* C40: two different sessions of the configuration that are routed to the
\* same machine, the same remote host or both local, never work on the
\* same terminal name.
SessionsHaveOwnTerminals ==
    \A a \in NewSessions : \A b \in NewSessions :
        (a.name # b.name /\ a.host = b.host) =>
            SessionTerminal(a.name) # SessionTerminal(b.name)

====
